---- MODULE Spec2Model ----
(***************************************************************************)
(* Spreadsheet ingestion pipeline of analytic-mp: the Wildberries parser   *)
(* (src/lib/parsers/wb.ts), the Ozon parser (src/lib/parsers/ozon.ts) and  *)
(* the shared utilities (src/lib/utils/parsing.ts, lib/utils/number.ts).   *)
(*                                                                         *)
(* Conventions of the model                                                *)
(*  - A JavaScript string is a TLA+ string.  TLA+ strings are ASCII, so    *)
(*    Cyrillic text is written in Latin transliteration ("artikul" for     *)
(*    the Russian word, "Tovary" for the sheet name).  Cyrillic text only  *)
(*    occurs in titles, header labels, sheet names and totals markers;     *)
(*    identifier cells hold Latin letters, digits and "-".                 *)
(*    RUB stands for the rouble glyph, NBSP for U+00A0, EMDASH and ENDASH  *)
(*    for the two dashes.                                                  *)
(*  - A JavaScript number is an exact rational [n, d] with d > 0 in lowest *)
(*    terms; IEEE rounding is not modelled.  null/undefined of type        *)
(*    number | null is NULL, the pair with d = 0.                          *)
(*  - A cell of the grid returned by sheet_to_json is a record             *)
(*    [k, v, s]: k = "null", k = "num" (value v) or k = "str" (text s).    *)
(*  - Array indices are the code's 0-based indices; a null index is        *)
(*    NoIdx.                                                               *)
(***************************************************************************)
EXTENDS Integers, Sequences, FiniteSets, TLC

(* ---------------------------------------------------------------------- *)
(* Bounds                                                                  *)
(* ---------------------------------------------------------------------- *)
MaxDataRows == 2
MaxHeaderRows == 3
MaxCalls == 3

\* parser calls the upload page may be awaiting at once
MaxParsing == 1

\* requests after which the operator no longer clicks Import
MaxRequests == 1

(* ---------------------------------------------------------------------- *)
(* Characters and strings                                                  *)
(* ---------------------------------------------------------------------- *)
RUB == "$"
NBSP == "_"
EMDASH == "~"
ENDASH == "^"
TAB == "\t"
NEWLINE == "\n"

Digits == "0123456789"

CharAt(s, i) == SubSeq(s, i, i)

\* the lower-case letter of each upper-case letter
LowerOf ==
  [A |-> "a", B |-> "b", C |-> "c", D |-> "d", E |-> "e", F |-> "f", G |-> "g",
   H |-> "h", I |-> "i", J |-> "j", K |-> "k", L |-> "l", M |-> "m", N |-> "n",
   O |-> "o", P |-> "p", Q |-> "q", R |-> "r", S |-> "s", T |-> "t", U |-> "u",
   V |-> "v", W |-> "w", X |-> "x", Y |-> "y", Z |-> "z"]

\* the upper-case letter of each lower-case letter
UpperOf ==
  [a |-> "A", b |-> "B", c |-> "C", d |-> "D", e |-> "E", f |-> "F", g |-> "G",
   h |-> "H", i |-> "I", j |-> "J", k |-> "K", l |-> "L", m |-> "M", n |-> "N",
   o |-> "O", p |-> "P", q |-> "Q", r |-> "R", s |-> "S", t |-> "T", u |-> "U",
   v |-> "V", w |-> "W", x |-> "X", y |-> "Y", z |-> "Z"]

DigitOf ==
  [c \in {"0", "1", "2", "3", "4", "5", "6", "7", "8", "9"} |->
     CHOOSE v \in 0..9 : CharAt(Digits, v + 1) = c]

IsDigit(c) == c \in DOMAIN DigitOf
IsUpperAlnum(c) == IsDigit(c) \/ c \in DOMAIN LowerOf

\* /\s/ of the regular expressions: space, tab, line break, U+00A0
IsSpace(c) == c \in {" ", TAB, NEWLINE, NBSP}

\* the string with every character in the domain of map replaced by its image
RECURSIVE MapChars(_, _, _)
MapChars(s, map, from) ==
  IF from > Len(s) THEN ""
  ELSE LET c == CharAt(s, from)
       IN (IF c \in DOMAIN map THEN map[c] ELSE c) \o MapChars(s, map, from + 1)

toLowerCase(s) == MapChars(s, LowerOf, 1)
toUpperCase(s) == MapChars(s, UpperOf, 1)

RECURSIVE TrimLeft(_)
TrimLeft(s) ==
  IF s # "" /\ IsSpace(CharAt(s, 1)) THEN TrimLeft(SubSeq(s, 2, Len(s))) ELSE s

RECURSIVE TrimRight(_)
TrimRight(s) ==
  IF s # "" /\ IsSpace(CharAt(s, Len(s))) THEN TrimRight(SubSeq(s, 1, Len(s) - 1)) ELSE s

trim(s) == TrimRight(TrimLeft(s))

\* s.replace(/[chars]/g, '')
RECURSIVE RemoveAll(_, _)
RemoveAll(s, chars) ==
  IF s = "" THEN ""
  ELSE (IF CharAt(s, 1) \in chars THEN "" ELSE CharAt(s, 1))
         \o RemoveAll(SubSeq(s, 2, Len(s)), chars)

\* s.replace(/[chars]/g, to)
RECURSIVE ReplaceAll(_, _, _)
ReplaceAll(s, chars, to) ==
  IF s = "" THEN ""
  ELSE (IF CharAt(s, 1) \in chars THEN to ELSE CharAt(s, 1))
         \o ReplaceAll(SubSeq(s, 2, Len(s)), chars, to)

\* s.replace(/\s+/g, ' '): every run of white space becomes one space
RECURSIVE CollapseSpaces(_)
CollapseSpaces(s) ==
  IF s = "" THEN ""
  ELSE IF IsSpace(CharAt(s, 1))
         THEN " " \o CollapseSpaces(TrimLeft(s))
         ELSE CharAt(s, 1) \o CollapseSpaces(SubSeq(s, 2, Len(s)))

\* s.includes(p)
includes(s, p) ==
  \E i \in 1..(Len(s) - Len(p) + 1) : SubSeq(s, i, i + Len(p) - 1) = p

\* s.startsWith(p)
startsWith(s, p) == Len(p) <= Len(s) /\ SubSeq(s, 1, Len(p)) = p

(* ---------------------------------------------------------------------- *)
(* Numbers                                                                 *)
(* ---------------------------------------------------------------------- *)
NULL == [n |-> 0, d |-> 0]

\* a number that is not finite (NaN, Infinity)
NAN == [n |-> 1, d |-> 0]

\* Number.isFinite(x) of a number
IsFinite(x) == x.d # 0

Abs(i) == IF i < 0 THEN -i ELSE i

RECURSIVE GCD(_, _)
GCD(a, b) == IF b = 0 THEN a ELSE GCD(b, a % b)

\* the number n/d (d # 0) in lowest terms with a positive denominator
Rat(n, d) ==
  LET g == GCD(Abs(n), Abs(d))
      sgn == IF d < 0 THEN -1 ELSE 1
  IN [n |-> sgn * (n \div g), d |-> sgn * (d \div g)]

Num(i) == [n |-> i, d |-> 1]

IsNull(x) == x = NULL
\* comparison, sum, product and quotient; common factors are cancelled before
\* multiplying to keep the intermediate integers small
RatLt(a, b) ==
  LET g == GCD(a.d, b.d) IN a.n * (b.d \div g) < b.n * (a.d \div g)
RatLe(a, b) ==
  LET g == GCD(a.d, b.d) IN a.n * (b.d \div g) <= b.n * (a.d \div g)
RatAdd(a, b) ==
  LET g == GCD(a.d, b.d)
  IN Rat(a.n * (b.d \div g) + b.n * (a.d \div g), (a.d \div g) * b.d)
RatMul(a, b) ==
  LET g1 == GCD(Abs(a.n), b.d)
      g2 == GCD(Abs(b.n), a.d)
  IN IF a.n = 0 \/ b.n = 0 THEN Num(0)
     ELSE Rat((a.n \div g1) * (b.n \div g2), (a.d \div g2) * (b.d \div g1))
\* a / b for b # 0
RatDiv(a, b) == RatMul(a, Rat(b.d, b.n))
IsZero(x) == x.d # 0 /\ x.n = 0
IsInteger(x) == x.d = 1

\* Math.round: the nearest integer, halves rounded towards +Infinity
MathRound(x) == Num((2 * x.n + x.d) \div (2 * x.d))

\* a ?? b
Coalesce(a, b) == IF IsNull(a) THEN b ELSE a

\* a || 0 on number | null
OrZero(a) == IF IsNull(a) THEN Num(0) ELSE a

RECURSIVE NatToStr(_)
NatToStr(i) ==
  IF i < 10 THEN CharAt(Digits, i + 1)
  ELSE NatToStr(i \div 10) \o CharAt(Digits, (i % 10) + 1)

\* String(x) of a number with at most two decimals
NumToStr(x) ==
  LET a == Abs(x.n)
      sign == IF x.n < 0 THEN "-" ELSE ""
      ip == a \div x.d
      hundredths == ((a % x.d) * 100) \div x.d
      frac == IF hundredths = 0 THEN ""
              ELSE IF hundredths % 10 = 0 THEN "." \o NatToStr(hundredths \div 10)
              ELSE IF hundredths < 10 THEN ".0" \o NatToStr(hundredths)
              ELSE "." \o NatToStr(hundredths)
  IN sign \o NatToStr(ip) \o frac

RECURSIVE DigitsValue(_)
DigitsValue(s) ==
  IF s = "" THEN 0
  ELSE 10 * DigitsValue(SubSeq(s, 1, Len(s) - 1)) + DigitOf[CharAt(s, Len(s))]

RECURSIVE Pow10(_)
Pow10(k) == IF k = 0 THEN 1 ELSE 10 * Pow10(k - 1)

AllDigits(s) == \A i \in 1..Len(s) : IsDigit(CharAt(s, i))

\* Number(s) of a string of digits, "." and sign; NAN for any other string.
\* (Exponent, hexadecimal and "Infinity" literals are outside the alphabet
\* of the modelled cells.)
StringToNumber(s) ==
  LET signed == s # "" /\ CharAt(s, 1) \in {"-", "+"}
      body == IF signed THEN SubSeq(s, 2, Len(s)) ELSE s
      sgn == IF signed /\ CharAt(s, 1) = "-" THEN -1 ELSE 1
      dots == {i \in 1..Len(body) : CharAt(body, i) = "."}
  IN IF body = "" THEN (IF s = "" THEN Num(0) ELSE NAN)
     ELSE IF dots = {}
       THEN (IF AllDigits(body) THEN Num(sgn * DigitsValue(body)) ELSE NAN)
     ELSE IF Cardinality(dots) > 1 THEN NAN
     ELSE LET p == CHOOSE i \in dots : TRUE
              ip == SubSeq(body, 1, p - 1)
              fp == SubSeq(body, p + 1, Len(body))
          IN IF AllDigits(ip) /\ AllDigits(fp) /\ (ip \o fp) # ""
               THEN Rat(sgn * (DigitsValue(ip) * Pow10(Len(fp)) + DigitsValue(fp)),
                        Pow10(Len(fp)))
               ELSE NAN

(* ---------------------------------------------------------------------- *)
(* Cells                                                                   *)
(* ---------------------------------------------------------------------- *)
NullCell == [k |-> "null", v |-> NULL, s |-> ""]
N(i) == [k |-> "num", v |-> Num(i), s |-> ""]
NR(n, d) == [k |-> "num", v |-> Rat(n, d), s |-> ""]
S(str) == [k |-> "str", v |-> NULL, s |-> str]

NoIdx == -1

\* row[idx]: undefined (read as null by every consumer) for a null index
\* or an index past the end of the row
CellAt(row, idx) ==
  IF idx = NoIdx \/ idx >= Len(row) THEN NullCell ELSE row[idx + 1]

\* !x for a cell value
Falsy(c) == c.k = "null" \/ (c.k = "str" /\ c.s = "") \/ (c.k = "num" /\ c.v.n = 0)

\* String(x || '')
StringOrEmpty(c) ==
  IF Falsy(c) THEN "" ELSE IF c.k = "num" THEN NumToStr(c.v) ELSE c.s

(* ---------------------------------------------------------------------- *)
(* Shared utilities (lib/utils/parsing.ts, lib/utils/number.ts)            *)
(* ---------------------------------------------------------------------- *)
\* str.toString() of a truthy cell value
CellToString(c) == IF c.k = "num" THEN NumToStr(c.v) ELSE c.s

normalizeHeader(c) ==
  IF Falsy(c) THEN ""
  ELSE toLowerCase(CollapseSpaces(ReplaceAll(ReplaceAll(trim(CellToString(c)),
                                                        {NBSP}, " "),
                                             {NEWLINE}, " ")))

\* normalizeHeader applied to a string constant of the code
normalizeText(str) == normalizeHeader(S(str))

\* Number.isFinite(num) ? num : null
FiniteOrNull(num) == IF IsFinite(num) THEN num ELSE NULL

\* parseRuNumber that strips ASCII spaces only, not the non-breaking space
parseRuNumberAsciiSpaces(c) ==
  IF c.k = "null" THEN NULL
  ELSE IF c.k = "num" THEN FiniteOrNull(c.v)
  ELSE LET raw == trim(c.s)
       IN IF raw \in {"", EMDASH, "-", ENDASH} THEN NULL
          ELSE LET normalized ==
                     ReplaceAll(RemoveAll(RemoveAll(raw, {RUB, "%"}), {" "}), {","}, ".")
               IN IF normalized \in {"", "-", "."} THEN NULL
                  ELSE FiniteOrNull(StringToNumber(normalized))

parseRuNumber(c) ==
  IF c.k = "null" THEN NULL
  ELSE IF c.k = "num" THEN FiniteOrNull(c.v)
  ELSE LET raw == trim(c.s)
       IN IF raw \in {"", EMDASH, "-", ENDASH} THEN NULL
          ELSE LET normalized ==
                     ReplaceAll(RemoveAll(ReplaceAll(RemoveAll(raw, {RUB, "%"}),
                                                     {NBSP, TAB}, " "),
                                          {" ", TAB, NEWLINE, NBSP}),
                                {","}, ".")
               IN IF normalized \in {"", "-", "."} THEN NULL
                  ELSE FiniteOrNull(StringToNumber(normalized))

parseNumberRU(c) == parseRuNumber(c)

\* the percent branch taken from 1 upwards, so that 1 becomes 0.01
parseRuPercentFromOne(c) ==
  LET num == parseRuNumber(c)
  IN IF IsNull(num) THEN NULL
     ELSE IF RatLe(Num(0), num) /\ RatLt(num, Num(1)) THEN num
     ELSE IF RatLe(Num(1), num) /\ RatLe(num, Num(100)) THEN RatDiv(num, Num(100))
     ELSE NULL

parseRuPercentToFraction(c) ==
  LET num == parseRuNumber(c)
  IN IF IsNull(num) THEN NULL
     ELSE IF RatLe(Num(0), num) /\ RatLe(num, Num(1)) THEN num
     ELSE IF RatLt(Num(1), num) /\ RatLe(num, Num(100)) THEN RatDiv(num, Num(100))
     ELSE NULL

parsePercentToFraction(c) == parseRuPercentToFraction(c)

safeDiv(numerator, denominator) ==
  IF IsNull(numerator) \/ IsNull(denominator) THEN NULL
  ELSE IF IsZero(denominator) THEN NULL
  ELSE RatDiv(numerator, denominator)

clampFraction(x) ==
  IF IsNull(x) THEN NULL
  ELSE IF RatLt(x, Num(0)) THEN Num(0)
  ELSE IF RatLt(Num(1), x) THEN Num(1)
  ELSE x

coerceInt(x) ==
  IF IsNull(x) THEN NULL
  ELSE LET rounded == MathRound(x)
       IN IF RatLt(rounded, Num(0)) THEN Num(0) ELSE rounded

\* patterns.some(p => normalizeHeader(str).includes(p.toLowerCase())), for
\* patterns already in lower case
fuzzyMatch(str, patterns) ==
  LET normalized == normalizeText(str)
  IN \E k \in 1..Len(patterns) : includes(normalized, patterns[k])

\* headers: the normalized header texts; the result is a 0-based index
findColumnIndex(headers, patterns) ==
  LET lowered == [k \in 1..Len(patterns) |-> toLowerCase(patterns[k])]
      hits == {i \in 1..Len(headers) : fuzzyMatch(headers[i], lowered)}
  IN IF hits = {} THEN NoIdx
     ELSE (CHOOSE i \in hits : \A j \in hits : i <= j) - 1

\* /^[A-Z0-9]+-[A-Z0-9]+/ against the trimmed, upper-cased text
\* headers: the normalized header texts; candidates: strings in priority
\* order (regular-expression candidates are not used by the callers modelled)
pickColIndex(headers, candidates) ==
  LET matching(k) == {j \in 1..Len(headers) :
                        headers[j] # "" /\ includes(headers[j], toLowerCase(candidates[k]))}
      usable == {k \in 1..Len(candidates) : matching(k) # {}}
  IN IF usable = {} THEN NoIdx
     ELSE LET best == CHOOSE k \in usable : \A q \in usable : k <= q
          IN (CHOOSE j \in matching(best) : \A q \in matching(best) : j <= q) - 1

isValidArtikul(artikul) ==
  IF artikul = "" THEN FALSE
  ELSE LET t == toUpperCase(trim(artikul))
       IN \E k \in 1..Len(t) :
            /\ \A j \in 1..k : IsUpperAlnum(CharAt(t, j))
            /\ k + 2 <= Len(t)
            /\ CharAt(t, k + 1) = "-"
            /\ IsUpperAlnum(CharAt(t, k + 2))

isTotalsRow(row) ==
  LET firstCell == toLowerCase(trim(StringOrEmpty(CellAt(row, 0))))
  IN \/ firstCell = "itogo"
     \/ firstCell = "total"
     \/ firstCell = "vsego"
     \/ startsWith(firstCell, "itog")

(* ---------------------------------------------------------------------- *)
(* Input files                                                             *)
(* ---------------------------------------------------------------------- *)
\* what detectPeriod returns for the workbook ("" for a null date); the
\* regular-expression scan itself is not modelled
NoPeriod == [start |-> "", end |-> ""]
Week1 == [start |-> "2024-01-01", end |-> "2024-01-07"]

WBTitleRow == <<S("Otchet po prodazham"), NullCell, NullCell>>

\* header row of src/__tests__/wb-parser.test.ts
WBHeaderRow ==
  <<S("Artikul prodavca"), S("Pokazy"), S("Perehody v kartochku"), S("CTR"),
    S("Polozhili v korzinu"), S("Konversiya v korzinu, %"), S("Zakazali, sht"),
    S("Zakazali na summu"), S("Srednyaya cena, " \o RUB)>>

\* the header row with the label of one column replaced by an unrelated one
WBHeaderWithout(col) == [WBHeaderRow EXCEPT ![col] = S("Kommentarii")]

\* data row of src/__tests__/wb-parser.test.ts
WBTestRow ==
  <<S("ABC-123"), N(120), N(12), S("10%"), N(3), S("25%"), N(1),
    S("1 200,50 " \o RUB), S("1 200 " \o RUB)>>

WBDataRows ==
  { WBTestRow,
    <<S(" abc-7 "), N(50), N(60), NullCell, N(70), S("abc"), S("2"), NullCell, S(EMDASH)>>,
    <<S("Itogo"), N(170), N(72), NullCell, N(73), NullCell, N(3), NullCell, NullCell>>,
    <<NullCell, N(5), N(1), NullCell, NullCell, NullCell, NullCell, NullCell, NullCell>>,
    <<S("XY-1"), S(EMDASH), N(4), NullCell, NullCell, NullCell, NullCell, NullCell, NullCell>>,
    <<S("XY-1"), N(-5), N(0), S("120%"), N(-2), NullCell, NullCell, N(-100), NR(1999, 10)>>,
    <<S("ABC-123"), S("1" \o NBSP \o "000"), S("100"), NR(1, 10), N(20), NR(3, 10), N(4),
      N(5000), N(1250)>> }

WBTestData == <<WBTitleRow, WBHeaderRow, WBTestRow>>

\* the rows above the data rows
WBHeads ==
  { <<WBHeaderRow>>,
    <<WBTitleRow, WBHeaderRow>>,
    <<<<NullCell, S("")>>, WBHeaderRow>>,
    <<WBHeaderWithout(1)>>,
    <<WBHeaderWithout(2)>>,
    <<WBHeaderWithout(3)>>,
    <<WBHeaderWithout(4)>>,
    << >> }

RECURSIVE SeqsUpTo(_, _)
SeqsUpTo(set, k) ==
  IF k = 0 THEN {<< >>}
  ELSE LET shorter == SeqsUpTo(set, k - 1)
       IN shorter \cup {Append(q, x) : q \in {r \in shorter : Len(r) = k - 1}, x \in set}

Sheet(name, data) == [name |-> name, data |-> data]

WBFiles ==
  {[sheets |-> <<Sheet("Tovary", head \o body)>>, period |-> Week1] :
      head \in WBHeads, body \in SeqsUpTo(WBDataRows, MaxDataRows)}
  \cup {[sheets |-> <<Sheet("Svodka", <<WBTitleRow>>), Sheet("Otchet: tovary", <<WBHeaderRow, r>>)>>,
         period |-> NoPeriod] : r \in WBDataRows}
  \cup {[sheets |-> <<Sheet("List1", <<WBHeaderRow, WBTestRow>>)>>, period |-> NoPeriod]}

WBTestFile == [sheets |-> <<Sheet("Tovary", WBTestData)>>, period |-> Week1]

(* ---------------------------------------------------------------------- *)
(* Wildberries parser (lib/parsers/wb.ts)                                  *)
(* ---------------------------------------------------------------------- *)
\* the first sheet whose normalized name includes the normalized expected
\* name (1-based position in SheetNames), 0 when there is none
findSheet(workbook, expectedName) ==
  LET normalizedExpected == normalizeText(expectedName)
      hits == {k \in 1..Len(workbook.sheets) :
                 includes(normalizeText(workbook.sheets[k].name), normalizedExpected)}
  IN IF hits = {} THEN 0 ELSE CHOOSE k \in hits : \A j \in hits : k <= j

WBPatterns ==
  [artikul |-> <<"artikul", "prodav">>,
   impressions |-> <<"pokazy">>,
   visits |-> <<"perehod", "kartoch">>,
   ctr |-> <<"ctr">>,
   add_to_cart |-> <<"korzin">>,
   cr_to_cart |-> <<"konversi", "korzin">>,
   orders |-> <<"zakaz", "sht">>,
   revenue |-> <<"zakazali na summu", "vyruch">>,
   price_avg |-> <<"srednyaya cena">>,
   stock_end |-> <<"ostatk", "sht">>,
   delivery |-> <<"srednee vremya dostav">>,
   rating |-> <<"reiting">>,
   reviews |-> <<"otzyv">>]

WBRequired == <<"artikul", "impressions", "visits">>

\* the first row among the first ten that has a cell other than null and ''
\* (row 0 when there is none)
WBHeaderRowIndex(grid) ==
  LET nonEmpty == {r \in 0..(Len(grid) - 1) :
                     /\ r < 10
                     /\ \E c \in 1..Len(grid[r + 1]) :
                           LET cell == grid[r + 1][c]
                           IN cell.k # "null" /\ ~(cell.k = "str" /\ cell.s = "")}
  IN IF nonEmpty = {} THEN 0 ELSE CHOOSE r \in nonEmpty : \A q \in nonEmpty : r <= q

WBColumnMap(normalizedHeaders) ==
  [key \in DOMAIN WBPatterns |-> findColumnIndex(normalizedHeaders, WBPatterns[key])]

\* the keys of required, in order, whose column is null
RECURSIVE MissingColumns(_, _)
MissingColumns(required, map) ==
  IF required = << >> THEN << >>
  ELSE (IF map[Head(required)] = NoIdx THEN <<Head(required)>> ELSE << >>)
         \o MissingColumns(Tail(required), map)

\* headers[idx] || null
HeaderOrNull(headers, idx) ==
  IF Falsy(CellAt(headers, idx)) THEN NullCell ELSE CellAt(headers, idx)

ErrSheetWB == "List \"Tovary\" ne naiden"
ErrNoDataWB == "Fail ne soderzhit dannyh (menshe 2 strok)"
ErrColumnWB(key) == "Obyazatelnaya kolonka \"" \o key \o "\" ne naidena"
ErrParse == "Oshibka parsinga: error"

RECURSIVE MapErr(_)
MapErr(keys) ==
  IF keys = << >> THEN << >> ELSE <<ErrColumnWB(Head(keys))>> \o MapErr(Tail(keys))

NoSkips == [totals_row |-> 0, invalid_artikul |-> 0, missing_required |-> 0]

WBInitialResult ==
  [rows |-> << >>,
   periodStart |-> "",
   periodEnd |-> "",
   diagnostics |-> [sheetName |-> "",
                    totalRowsScanned |-> 0,
                    rowsAccepted |-> 0,
                    rowsSkipped |-> 0,
                    skipReasons |-> NoSkips,
                    columnMapping |-> << >>,
                    missingColumns |-> << >>],
   errors |-> << >>,
   warnings |-> << >>]

\* the outcome of one iteration of the row loop: the row to push (or none)
\* and the skip reason (or none)
WBParseRow(row, map) ==
  LET artikul == toUpperCase(trim(StringOrEmpty(CellAt(row, map.artikul))))
      impressions == coerceInt(parseNumberRU(CellAt(row, map.impressions)))
      visits == coerceInt(parseNumberRU(CellAt(row, map.visits)))
      ctrRaw == CellAt(row, map.ctr)
      ctr == IF ctrRaw.k # "null"
               THEN Coalesce(clampFraction(parsePercentToFraction(ctrRaw)),
                             Coalesce(safeDiv(visits, impressions), Num(0)))
               ELSE Coalesce(safeDiv(visits, impressions), Num(0))
      add_to_cart == Coalesce(coerceInt(parseNumberRU(CellAt(row, map.add_to_cart))), Num(0))
      crRaw == CellAt(row, map.cr_to_cart)
      cr_to_cart == IF crRaw.k # "null"
                      THEN Coalesce(clampFraction(parsePercentToFraction(crRaw)),
                                    Coalesce(safeDiv(add_to_cart, visits), Num(0)))
                      ELSE Coalesce(safeDiv(add_to_cart, visits), Num(0))
  IN IF Len(row) = 0 THEN [skip |-> "empty", push |-> << >>]
     ELSE IF isTotalsRow(row) THEN [skip |-> "totals_row", push |-> << >>]
     ELSE IF ~isValidArtikul(artikul) THEN [skip |-> "invalid_artikul", push |-> << >>]
     ELSE IF IsNull(impressions) \/ IsNull(visits)
       THEN [skip |-> "missing_required", push |-> << >>]
     ELSE [skip |-> "",
           push |-> <<[artikul |-> artikul,
                       impressions |-> impressions,
                       visits |-> visits,
                       ctr |-> ctr,
                       add_to_cart |-> add_to_cart,
                       cr_to_cart |-> cr_to_cart,
                       orders |-> Coalesce(coerceInt(parseNumberRU(CellAt(row, map.orders))), Num(0)),
                       revenue |-> parseNumberRU(CellAt(row, map.revenue)),
                       price_avg |-> parseNumberRU(CellAt(row, map.price_avg)),
                       stock_end |-> coerceInt(parseNumberRU(CellAt(row, map.stock_end))),
                       delivery_avg_hours |-> parseNumberRU(CellAt(row, map.delivery)),
                       rating |-> parseNumberRU(CellAt(row, map.rating)),
                       reviews_count |-> coerceInt(parseNumberRU(CellAt(row, map.reviews)))]>>]

(* ---------------------------------------------------------------------- *)
(* Ozon parser (lib/parsers/ozon.ts): headers                              *)
(* ---------------------------------------------------------------------- *)
AGGREGATE_DUPLICATES == TRUE

\* composite headers whose blank group cells inherit nothing
RECURSIVE CompositeFromOwnGroup(_, _, _, _)
CompositeFromOwnGroup(row1, row2, i, lastGroup) ==
  LET maxLen == IF Len(row1) > Len(row2) THEN Len(row1) ELSE Len(row2)
      group == normalizeHeader(CellAt(row1, i))
      metric == normalizeHeader(CellAt(row2, i))
      composite == IF metric # ""
                     THEN (IF group # "" THEN group \o " | " \o metric ELSE metric)
                     ELSE group
  IN IF i >= maxLen THEN << >>
     ELSE <<IF includes(composite, "dinamika") THEN "" ELSE composite>>
            \o CompositeFromOwnGroup(row1, row2, i + 1, group)

\* columns i.. (0-based) of the composite header, lastGroup carried from the left
RECURSIVE CompositeFrom(_, _, _, _)
CompositeFrom(row1, row2, i, lastGroup) ==
  LET maxLen == IF Len(row1) > Len(row2) THEN Len(row1) ELSE Len(row2)
      groupRaw == normalizeHeader(CellAt(row1, i))
      group == IF groupRaw # "" THEN groupRaw ELSE lastGroup
      metric == normalizeHeader(CellAt(row2, i))
      composite == IF metric # ""
                     THEN (IF group # "" THEN group \o " | " \o metric ELSE metric)
                     ELSE group
      isDynamic == \/ includes(composite, "dinamika")
                   \/ includes(group, "dinamika")
                   \/ includes(metric, "dinamika")
  IN IF i >= maxLen THEN << >>
     ELSE <<IF isDynamic THEN "" ELSE composite>>
            \o CompositeFrom(row1, row2, i + 1, group)

buildCompositeHeaders(row1, row2) == CompositeFrom(row1, row2, 0, "")

\* patterns.some(p => text.includes(p)), for normalized patterns
AnyPattern(text, patterns) ==
  \E k \in 1..Len(patterns) : includes(text, patterns[k])

\* patterns.map(normalizeHeader)
NormalizedPatterns(patterns) == [k \in 1..Len(patterns) |-> normalizeText(patterns[k])]

findColumnByGroupAndMetric(headers, groupPatterns, metricPatterns) ==
  LET groups == NormalizedPatterns(groupPatterns)
      metrics == NormalizedPatterns(metricPatterns)
      hits == {i \in 1..Len(headers) :
                 /\ headers[i] # ""
                 /\ (Len(groupPatterns) = 0 \/ AnyPattern(headers[i], groups))
                 /\ (Len(metricPatterns) = 0 \/ AnyPattern(headers[i], metrics))}
  IN IF hits = {} THEN NoIdx
     ELSE (CHOOSE i \in hits : \A j \in hits : i <= j) - 1

\* header.split('|').map(trim): part k (0-based) of the split, for k = 0, 1
RECURSIVE SplitPart(_, _)
SplitPart(text, k) ==
  LET bars == {i \in 1..Len(text) : CharAt(text, i) = "|"}
      first == IF bars = {} THEN Len(text) + 1
               ELSE CHOOSE i \in bars : \A j \in bars : i <= j
  IN IF k = 0 THEN trim(SubSeq(text, 1, first - 1))
     ELSE SplitPart(SubSeq(text, first + 1, Len(text)), k - 1)

MetricSegment(header) ==
  IF \E i \in 1..Len(header) : CharAt(header, i) = "|"
    THEN SplitPart(header, 1)
    ELSE SplitPart(header, 0)

findColumnByMetricOnly(headers, metricPatterns) ==
  LET metrics == NormalizedPatterns(metricPatterns)
      hits == {i \in 1..Len(headers) :
                 /\ headers[i] # ""
                 /\ AnyPattern(MetricSegment(headers[i]), metrics)}
  IN IF hits = {} THEN NoIdx
     ELSE (CHOOSE i \in hits : \A j \in hits : i <= j) - 1

\* a ?? b on column indices
IdxOr(a, b) == IF a = NoIdx THEN b ELSE a

OzonFunnel == <<"voronka prodazh">>
OzonFactors == <<"faktory prodazh">>

OzonColumnMap(h) ==
  [artikul |-> findColumnByGroupAndMetric(h, << >>, <<"artikul">>),
   impressions |->
     IdxOr(findColumnByGroupAndMetric(h, OzonFunnel, <<"pokazy vsego", "pokazy">>),
           findColumnByMetricOnly(h, <<"pokazy vsego", "pokazy">>)),
   visits |->
     IdxOr(findColumnByGroupAndMetric(h, OzonFunnel,
             <<"posescheniya kartochki tovara", "posescheniya kartochki">>),
           findColumnByMetricOnly(h,
             <<"posescheniya kartochki tovara", "posescheniya kartochki">>)),
   add_to_cart |-> findColumnByGroupAndMetric(h, OzonFunnel,
     <<"dobavleniya v korzinu vsego", "dobavleniya v korzinu", "korzin">>),
   cr_to_cart |-> findColumnByGroupAndMetric(h, OzonFunnel,
     <<"konversiya v korzinu obschaya", "konversiya v korzinu", "konversiya", "korzin">>),
   orders |-> findColumnByGroupAndMetric(h, OzonFunnel, <<"zakazano tovarov", "zakazano">>),
   revenue |-> findColumnByGroupAndMetric(h, <<"prodazhi">>,
     <<"zakazano na summu", "zakazano", "summ", "vyruchka">>),
   price_avg |-> findColumnByGroupAndMetric(h, OzonFactors, <<"srednyaya cena", "srednyaya">>),
   drr |-> findColumnByGroupAndMetric(h, OzonFactors, <<"obschaya drr", "drr">>),
   stock_end |-> findColumnByGroupAndMetric(h, OzonFactors,
     <<"ostatok na konec perioda", "ostatok na konec", "ostatok">>),
   rating |-> findColumnByGroupAndMetric(h, OzonFactors, <<"reiting tovara", "reiting">>),
   reviews |-> findColumnByGroupAndMetric(h, OzonFactors, <<"otzyvy">>)]

\* the group and metric patterns of the target fields other than the identifier
OzonTargets ==
  [impressions |-> [group |-> OzonFunnel, metric |-> <<"pokazy vsego", "pokazy">>],
   visits |-> [group |-> OzonFunnel,
               metric |-> <<"posescheniya kartochki tovara", "posescheniya kartochki">>],
   add_to_cart |-> [group |-> OzonFunnel,
      metric |-> <<"dobavleniya v korzinu vsego", "dobavleniya v korzinu", "korzin">>],
   cr_to_cart |-> [group |-> OzonFunnel,
      metric |-> <<"konversiya v korzinu obschaya", "konversiya v korzinu", "konversiya",
                   "korzin">>],
   orders |-> [group |-> OzonFunnel, metric |-> <<"zakazano tovarov", "zakazano">>],
   revenue |-> [group |-> <<"prodazhi">>,
                metric |-> <<"zakazano na summu", "zakazano", "summ", "vyruchka">>],
   price_avg |-> [group |-> OzonFactors, metric |-> <<"srednyaya cena", "srednyaya">>],
   drr |-> [group |-> OzonFactors, metric |-> <<"obschaya drr", "drr">>],
   stock_end |-> [group |-> OzonFactors,
      metric |-> <<"ostatok na konec perioda", "ostatok na konec", "ostatok">>],
   rating |-> [group |-> OzonFactors, metric |-> <<"reiting tovara", "reiting">>],
   reviews |-> [group |-> OzonFactors, metric |-> <<"otzyvy">>]]

OzonRequired == <<"artikul", "impressions", "visits">>

OzonRequiredLabel ==
  [artikul |-> "Artikul",
   impressions |-> "Pokazy vsego",
   visits |-> "Posescheniya kartochki tovara"]

\* the row has a cell with the products keyword and a cell with a group label
OzonIsHeaderStart(row) ==
  LET normalized == [c \in 1..Len(row) |-> normalizeHeader(row[c])]
      hasProducts == \E c \in 1..Len(row) : includes(normalized[c], "tovar")
      hasGroups == \E c \in 1..Len(row) :
                      \/ includes(normalized[c], "voronka prodazh")
                      \/ includes(normalized[c], "faktory prodazh")
                      \/ includes(normalized[c], "prodazhi")
  IN hasProducts /\ hasGroups

\* the first row 0..min(60, length - 1) that starts the header, NoIdx if none
OzonHeaderStartRow(grid) ==
  LET maxHeaderScan == IF 60 < Len(grid) - 1 THEN 60 ELSE Len(grid) - 1
      hits == {r \in 0..maxHeaderScan : OzonIsHeaderStart(grid[r + 1])}
  IN IF hits = {} THEN NoIdx ELSE CHOOSE r \in hits : \A q \in hits : r <= q

\* compositeHeaders.filter(Boolean).slice(0, 30)
RECURSIVE FilterNonEmpty(_)
FilterNonEmpty(h) ==
  IF h = << >> THEN << >>
  ELSE (IF Head(h) # "" THEN <<Head(h)>> ELSE << >>) \o FilterNonEmpty(Tail(h))

HeaderSample(h) ==
  LET f == FilterNonEmpty(h)
  IN IF Len(f) > 30 THEN SubSeq(f, 1, 30) ELSE f

RECURSIVE Join(_, _)
Join(strs, sep) ==
  IF strs = << >> THEN ""
  ELSE IF Len(strs) = 1 THEN strs[1]
  ELSE strs[1] \o sep \o Join(Tail(strs), sep)

ErrSheetOzon == "OZON: list s nazvaniem \"Po tovaram\" ne naiden."
ErrNoDataOzon == "Fail ne soderzhit dannyh (menshe 3 strok)"
ErrHeaderOzon == "OZON: ne nashli stroku shapki"
ErrSecondRowOzon == "OZON: ne nashli vtoruyu stroku shapki"
ErrColumnOzon(key, sample) ==
  "OZON: ne nashli kolonku \"" \o OzonRequiredLabel[key] \o "\". Zagolovki: "
    \o (IF Len(sample) > 0 THEN Join(sample, ", ") ELSE "ne naideno")

RECURSIVE MapErrOzon(_, _)
MapErrOzon(keys, sample) ==
  IF keys = << >> THEN << >>
  ELSE <<ErrColumnOzon(Head(keys), sample)>> \o MapErrOzon(Tail(keys), sample)

(* ---------------------------------------------------------------------- *)
(* Ozon parser: rows                                                       *)
(* ---------------------------------------------------------------------- *)
WarnNegative(label) == "OZON: otricatelnye znacheniya \"" \o label \o "\" byli obnuleny."
WarnNegativeTotal == "OZON: obnaruzheny otricatelnye znacheniya, oni byli obnuleny."
WarnZeroImpressions(count) ==
  "OZON: " \o NatToStr(count) \o " strok(i) s pokazami = 0. CTR rasschitan kak null."

LabelImpressions == "Pokazy vsego"
LabelVisits == "Posescheniya kartochki tovara"
LabelAddToCart == "Dobavleniya v korzinu"
LabelOrders == "Zakazano tovarov"
LabelRevenue == "Vyruchka"
LabelPrice == "Srednyaya cena"
LabelStock == "Ostatok"
LabelRating == "Reiting"
LabelReviews == "Otzyvy"

\* the value clampNonNegative returns
clampNonNegative(value) ==
  IF IsNull(value) THEN NULL
  ELSE IF RatLt(value, Num(0)) THEN Num(0)
  ELSE value

\* clampNonNegative registers a warning for this value
ClampWarns(value) == ~IsNull(value) /\ RatLt(value, Num(0))

\* the labels, in call order, of the calls of clampNonNegative that warn
RECURSIVE ClampedLabels(_)
ClampedLabels(calls) ==
  IF calls = << >> THEN << >>
  ELSE (IF ClampWarns(Head(calls).value) THEN <<Head(calls).label>> ELSE << >>)
         \o ClampedLabels(Tail(calls))

Call(value, label) == [value |-> value, label |-> label]

\* the outcome of one iteration of the row loop: the skip reason (or none),
\* the row to push (or none) and the labels of the clamped fields
OzonParseRow(row, map) ==
  LET artikul == toUpperCase(trim(StringOrEmpty(CellAt(row, map.artikul))))
      impressionsIn == coerceInt(parseNumberRU(CellAt(row, map.impressions)))
      visitsIn == coerceInt(parseNumberRU(CellAt(row, map.visits)))
      impressions == clampNonNegative(impressionsIn)
      visits == clampNonNegative(visitsIn)
      requiredCalls == <<Call(impressionsIn, LabelImpressions), Call(visitsIn, LabelVisits)>>
      addToCartIn == Coalesce(coerceInt(parseNumberRU(CellAt(row, map.add_to_cart))), Num(0))
      ordersIn == Coalesce(coerceInt(parseNumberRU(CellAt(row, map.orders))), Num(0))
      revenueIn == parseNumberRU(CellAt(row, map.revenue))
      priceIn == parseNumberRU(CellAt(row, map.price_avg))
      stockIn == coerceInt(parseNumberRU(CellAt(row, map.stock_end)))
      ratingIn == parseNumberRU(CellAt(row, map.rating))
      reviewsIn == coerceInt(parseNumberRU(CellAt(row, map.reviews)))
      optionalCalls == <<Call(addToCartIn, LabelAddToCart), Call(ordersIn, LabelOrders),
                         Call(revenueIn, LabelRevenue), Call(priceIn, LabelPrice),
                         Call(stockIn, LabelStock), Call(ratingIn, LabelRating),
                         Call(reviewsIn, LabelReviews)>>
      add_to_cart == Coalesce(clampNonNegative(addToCartIn), Num(0))
      crRaw == CellAt(row, map.cr_to_cart)
      cr_to_cart == IF crRaw.k # "null"
                      THEN Coalesce(clampFraction(parsePercentToFraction(crRaw)),
                                    safeDiv(add_to_cart, visits))
                      ELSE safeDiv(add_to_cart, visits)
  IN IF Len(row) = 0 THEN [skip |-> "empty", push |-> << >>, clamped |-> << >>]
     ELSE IF isTotalsRow(row) THEN [skip |-> "totals_row", push |-> << >>, clamped |-> << >>]
     ELSE IF ~isValidArtikul(artikul)
       THEN [skip |-> "invalid_artikul", push |-> << >>, clamped |-> << >>]
     ELSE IF IsNull(impressions) \/ IsNull(visits)
       THEN [skip |-> "missing_required", push |-> << >>,
             clamped |-> ClampedLabels(requiredCalls)]
     ELSE [skip |-> "",
           clamped |-> ClampedLabels(requiredCalls \o optionalCalls),
           push |-> <<[artikul |-> artikul,
                       impressions |-> impressions,
                       visits |-> visits,
                       ctr |-> clampFraction(safeDiv(visits, impressions)),
                       add_to_cart |-> add_to_cart,
                       cr_to_cart |-> cr_to_cart,
                       orders |-> Coalesce(clampNonNegative(ordersIn), Num(0)),
                       revenue |-> clampNonNegative(revenueIn),
                       price_avg |-> clampNonNegative(priceIn),
                       drr |-> clampFraction(parsePercentToFraction(CellAt(row, map.drr))),
                       stock_end |-> clampNonNegative(stockIn),
                       rating |-> clampNonNegative(ratingIn),
                       reviews_count |-> clampNonNegative(reviewsIn)]>>]

\* the messages pushed onto a list, one per correction
PushAll(set, msgs) == set \o msgs

\* Set.add for each message, in order (a Set keeps insertion order)
RECURSIVE SetAddAll(_, _)
SetAddAll(set, msgs) ==
  IF msgs = << >> THEN set
  ELSE SetAddAll(IF \E k \in 1..Len(set) : set[k] = Head(msgs)
                   THEN set ELSE Append(set, Head(msgs)),
                 Tail(msgs))

RECURSIVE MapWarnNegative(_)
MapWarnNegative(labels) ==
  IF labels = << >> THEN << >>
  ELSE <<WarnNegative(Head(labels))>> \o MapWarnNegative(Tail(labels))

(* ---------------------------------------------------------------------- *)
(* Ozon parser: aggregation of duplicate identifiers                       *)
(* ---------------------------------------------------------------------- *)
\* the rates of a merged entry, from its accumulated counts
MergedCtr(visits, impressions) == clampFraction(safeDiv(visits, impressions))
MergedCr(add_to_cart, visits) == clampFraction(safeDiv(add_to_cart, visits))

\* the incoming value overwrites the accumulated one
Overwrite(a, b) == b

\* a += b on the summable counts
Accumulate(a, b) == RatAdd(a, b)

MergedPrice(existing, row) ==
  LET prevVisits == existing.visits
      prevImpressions == existing.impressions
      totalVisits == RatAdd(prevVisits, row.visits)
      totalImpressions == RatAdd(prevImpressions, row.impressions)
  IN IF IsNull(row.price_avg) THEN existing.price_avg
     ELSE IF RatLt(Num(0), totalVisits)
       THEN RatAdd(RatMul(OrZero(existing.price_avg), RatDiv(prevVisits, totalVisits)),
                   RatMul(row.price_avg, RatDiv(row.visits, totalVisits)))
     ELSE IF RatLt(Num(0), totalImpressions)
       THEN RatAdd(RatMul(OrZero(existing.price_avg), RatDiv(prevImpressions, totalImpressions)),
                   RatMul(row.price_avg, RatDiv(row.impressions, totalImpressions)))
     ELSE IF IsNull(existing.price_avg) THEN row.price_avg
     ELSE existing.price_avg

MergedDrr(existing, row) ==
  LET prevRevenue == OrZero(existing.revenue)
  IN IF IsNull(row.drr) THEN existing.drr
     ELSE IF ~IsZero(prevRevenue) /\ ~IsNull(row.revenue) /\ ~IsZero(row.revenue)
       THEN LET totalRevenue == RatAdd(prevRevenue, row.revenue)
            IN RatAdd(RatMul(OrZero(existing.drr), RatDiv(prevRevenue, totalRevenue)),
                      RatMul(row.drr, RatDiv(row.revenue, totalRevenue)))
     ELSE IF IsNull(existing.drr) THEN row.drr
     ELSE RatDiv(RatAdd(existing.drr, row.drr), Num(2))

\* the value of the latest row, known or not
LatestRow(old, new) == new

\* the latest non-null value
Latest(old, new) == IF IsNull(new) THEN old ELSE new

\* the mean of two rates (the known one if the other is null)
MeanRate(a, b) ==
  IF IsNull(a) THEN b
  ELSE IF IsNull(b) THEN a
  ELSE RatDiv(RatAdd(a, b), Num(2))

\* the merge with the rates averaged instead of recomputed
MergeRowMeanRates(existing, row) ==
  [artikul |-> existing.artikul,
   impressions |-> Accumulate(existing.impressions, row.impressions),
   visits |-> Accumulate(existing.visits, row.visits),
   ctr |-> MeanRate(existing.ctr, row.ctr),
   add_to_cart |-> Accumulate(existing.add_to_cart, row.add_to_cart),
   cr_to_cart |-> MeanRate(existing.cr_to_cart, row.cr_to_cart),
   orders |-> Accumulate(existing.orders, row.orders),
   revenue |-> Accumulate(OrZero(existing.revenue), OrZero(row.revenue)),
   price_avg |-> MergedPrice(existing, row),
   drr |-> MergedDrr(existing, row),
   stock_end |-> Latest(existing.stock_end, row.stock_end),
   rating |-> Latest(existing.rating, row.rating),
   reviews_count |-> Latest(existing.reviews_count, row.reviews_count)]

\* the entry of an identifier after one more row of it
MergeRow(existing, row) ==
  LET impressions == Accumulate(existing.impressions, row.impressions)
      visits == Accumulate(existing.visits, row.visits)
      add_to_cart == Accumulate(existing.add_to_cart, row.add_to_cart)
  IN [artikul |-> existing.artikul,
      impressions |-> impressions,
      visits |-> visits,
      ctr |-> MergedCtr(visits, impressions),
      add_to_cart |-> add_to_cart,
      cr_to_cart |-> MergedCr(add_to_cart, visits),
      orders |-> Accumulate(existing.orders, row.orders),
      revenue |-> Accumulate(OrZero(existing.revenue), OrZero(row.revenue)),
      price_avg |-> MergedPrice(existing, row),
      drr |-> MergedDrr(existing, row),
      stock_end |-> Latest(existing.stock_end, row.stock_end),
      rating |-> Latest(existing.rating, row.rating),
      reviews_count |-> Latest(existing.reviews_count, row.reviews_count)]

\* the loop without the count of merged rows
RECURSIVE AggregateFromUncounted(_, _, _)
AggregateFromUncounted(rest, map, aggregatedCount) ==
  IF rest = << >> THEN [rows |-> map, aggregatedCount |-> aggregatedCount]
  ELSE LET row == Head(rest)
           at == {k \in 1..Len(map) : map[k].artikul = row.artikul}
       IN IF at # {}
            THEN LET k == CHOOSE j \in at : TRUE
                 IN AggregateFromUncounted(Tail(rest),
                      [map EXCEPT ![k] = MergeRow(map[k], row)], aggregatedCount)
            ELSE AggregateFromUncounted(Tail(rest), Append(map, row), aggregatedCount)

\* the loop over rows: map holds the entries in insertion order
RECURSIVE AggregateFrom(_, _, _)
AggregateFrom(rest, map, aggregatedCount) ==
  IF rest = << >> THEN [rows |-> map, aggregatedCount |-> aggregatedCount]
  ELSE LET row == Head(rest)
           at == {k \in 1..Len(map) : map[k].artikul = row.artikul}
       IN IF at # {}
            THEN LET k == CHOOSE j \in at : TRUE
                 IN AggregateFrom(Tail(rest), [map EXCEPT ![k] = MergeRow(map[k], row)],
                                  aggregatedCount + 1)
            ELSE AggregateFrom(Tail(rest), Append(map, row), aggregatedCount)

aggregateDuplicates(rows) == AggregateFrom(rows, << >>, 0)

(* ---------------------------------------------------------------------- *)
(* Ozon input files                                                        *)
(* ---------------------------------------------------------------------- *)
\* the grid of src/__tests__/ozon-parser.test.ts
OzonTestData ==
  << <<S("Otchet po tovaram"), NullCell, NullCell, NullCell, NullCell>>,
     <<S("Voronka prodazh"), S("Voronka prodazh"), S("Voronka prodazh"), S("Prodazhi"),
       S("Faktory prodazh")>>,
     <<S("Artikul"), S("Pokazy vsego"), S("Posescheniya kartochki tovara"),
       S("Zakazano na summu"), S("Srednyaya cena")>>,
     <<S("GFA-5200"), S("1 000"), S("100"), S("12 345,67 " \o RUB), S("123,45 " \o RUB)>> >>

OzonTestFile == [sheets |-> <<Sheet("Po tovaram", OzonTestData)>>, period |-> NoPeriod]

\* an export with a products column, inherited group labels, a dynamics
\* column and a units row and a spacer row under the header
OzonGroupRow ==
  <<S("Tovary"), S("Voronka prodazh"), NullCell, NullCell, NullCell, NullCell,
    S("Prodazhi"), NullCell, S("Faktory prodazh"), NullCell, NullCell, NullCell, NullCell>>

OzonMetricRow ==
  <<S("Artikul"), S("Pokazy vsego"), S("Posescheniya  kartochki tovara"),
    S("Dobavleniya v korzinu vsego"), S("Konversiya v korzinu obschaya"),
    S("Zakazano tovarov"), S("Zakazano na summu"), S("Dinamika"), S("Srednyaya cena"),
    S("Obschaya DRR"), S("Ostatok na konec perioda"), S("Reiting tovara"), S("Otzyvy")>>

OzonUnitsRow ==
  <<NullCell, S("sht"), S("sht"), S("sht"), S("%"), S("sht"), S(RUB), S("%"), S(RUB),
    S("%"), S("sht"), NullCell, S("sht")>>

OzonBlankRow == [c \in 1..13 |-> NullCell]

OzonMetricWithout(col) == [OzonMetricRow EXCEPT ![col] = S("Kommentarii")]

\* group row of an export whose only group label is the sales one
OzonSalesOnlyGroupRow ==
  <<S("Tovary"), S("Prodazhi"), NullCell, NullCell, NullCell, NullCell,
    NullCell, NullCell, NullCell, NullCell, NullCell, NullCell, NullCell>>

OzonHeads ==
  { <<OzonGroupRow, OzonMetricRow, OzonUnitsRow, OzonBlankRow>>,
    <<OzonTestData[1], OzonGroupRow, OzonMetricRow, OzonUnitsRow, OzonBlankRow>>,
    <<OzonSalesOnlyGroupRow, OzonMetricRow, OzonUnitsRow, OzonBlankRow>>,
    <<OzonGroupRow, OzonMetricWithout(1), OzonUnitsRow, OzonBlankRow>>,
    <<OzonGroupRow, OzonMetricWithout(3), OzonUnitsRow, OzonBlankRow>>,
    <<OzonTestData[1], OzonTestData[2], OzonTestData[3]>>,
    <<OzonGroupRow, OzonMetricRow>>,
    <<OzonTestData[1], OzonBlankRow, OzonGroupRow>>,
    << >> }

\* identifier, impressions, visits, add-to-cart, conversion, orders, revenue,
\* dynamics, price, drr, stock, rating, reviews
OzonRow(a, imp, vis, atc, cr, ord, rev, price, drr, stock, rating, reviews) ==
  <<a, imp, vis, atc, cr, ord, rev, S("+5%"), price, drr, stock, rating, reviews>>

OzonDataRows ==
  { OzonRow(S("GFA-5200"), N(100), N(10), N(2), NullCell, N(1), N(1000), N(500),
            NR(1, 10), N(7), NR(9, 2), N(12)),
    OzonRow(S("gfa-5200 "), N(50), N(5), N(1), NullCell, NullCell, NullCell, NullCell,
            NullCell, NullCell, NullCell, NullCell),
    OzonRow(S("GFM-300"), N(-5), N(3), N(1), NullCell, N(2), N(300), N(150),
            S("20%"), N(4), N(4), N(3)),
    OzonRow(S("GFA-5200"), S("1 000"), S("100"), N(150), NullCell, N(-1),
            S("12 345,67 " \o RUB), S("123,45 " \o RUB), NullCell, N(-3), NullCell, N(-2)),
    OzonRow(S("Itogo"), N(1150), N(118), N(4), NullCell, N(3), N(1300), NullCell,
            NullCell, NullCell, NullCell, NullCell),
    OzonRow(NullCell, N(1), N(1), NullCell, NullCell, NullCell, NullCell, NullCell,
            NullCell, NullCell, NullCell, NullCell),
    OzonRow(S("GFA-5200"), S(EMDASH), N(-4), NullCell, NullCell, NullCell, NullCell, NullCell,
            NullCell, NullCell, NullCell, NullCell),
    OzonRow(S("GFM-300"), N(0), N(0), N(0), NullCell, N(0), NullCell, N(200),
            NR(3, 10), N(5), NullCell, NullCell),
    OzonRow(S("GFM-300"), N(10), N(20), N(30), NullCell, N(1), N(-100), N(-50),
            S("150%"), NullCell, N(-1), NullCell),
    OzonRow(S("GFA-5200"), N(40), N(0), N(0), NullCell, N(0), N(0), N(100),
            NR(1, 2), N(2), N(5), N(1)) }

OzonFiles ==
  {[sheets |-> <<Sheet("Po tovaram", head \o body)>>, period |-> Week1] :
      head \in OzonHeads, body \in SeqsUpTo(OzonDataRows, MaxDataRows)}
  \cup {[sheets |-> <<Sheet("Tovary", <<OzonGroupRow, OzonMetricRow, OzonBlankRow>>)>>,
         period |-> NoPeriod]}
  \cup {OzonTestFile}

OzonInitialResult ==
  [rows |-> << >>,
   periodStart |-> "",
   periodEnd |-> "",
   diagnostics |-> [sheetName |-> "",
                    headerStartRow |-> NoIdx,
                    headerSecondRow |-> NoIdx,
                    headerSample |-> << >>,
                    totalRowsScanned |-> 0,
                    rowsAccepted |-> 0,
                    rowsSkipped |-> 0,
                    duplicatesAggregated |-> 0,
                    aggregationApplied |-> AGGREGATE_DUPLICATES,
                    skipReasons |-> NoSkips,
                    columnMapping |-> << >>,
                    missingColumns |-> << >>],
   errors |-> << >>,
   warnings |-> << >>]

(* ---------------------------------------------------------------------- *)
(* State                                                                   *)
(* ---------------------------------------------------------------------- *)
VARIABLES
  mp,                    \* the parser called: "WB" (parseWBFile) or "OZON" (parseOzonFile)
  file,                  \* the file passed to the call
  pc,                    \* position of the call
  outcome,               \* "pending", "returned" (promise resolved) or "rejected"
  thrown,                \* an exception was raised inside the call
  result,                \* the result object under construction
  data,                  \* the grid returned by sheet_to_json
  headerRowIndex,        \* WB: headerRowIndex; Ozon: headerStartRow
  columnMap,             \* key -> column index
  i,                     \* index of the next row of the row loop
  warningsSet,           \* Ozon: warningsSet, in insertion order
  zeroImpressionsCount,  \* Ozon
  negativeValuesCount,   \* Ozon
  scanned,               \* the rows pushed by the row loop (result.rows before aggregation)
  finished,              \* the parser calls that have returned, oldest first
  suspended,             \* the parser calls waiting at `await file.arrayBuffer()`
  call,                  \* a direct call of a utility function: name, argument, value
  page,                  \* upload page: the React state of UploadPage
  parsing,               \* upload page: the parse calls in flight
  importRun,             \* upload page: the running invocation of handleImport
  requests               \* upload page: the /api/import requests sent, oldest first

\* the variables of one parser call
parser == <<mp, file, pc, outcome, thrown, result, data, headerRowIndex, columnMap, i,
            warningsSet, zeroImpressionsCount, negativeValuesCount, scanned>>

\* the variables of the upload page
upload == <<page, parsing, importRun, requests>>

\* what a step of a parser call leaves alone
env == <<finished, suspended, call, upload>>

vars == <<parser, finished, suspended, call, upload>>

\* no utility function is being called directly
NoCall == [fn |-> "none"]

\* useState(null) of wbResult and ozonResult
NoResult == [file |-> 0, level |-> "idle", period |-> FALSE]

\* the initial React state of UploadPage; a file is its number, 0 for null
PageInitial ==
  [wbFile |-> 0, ozonFile |-> 0, wbResult |-> NoResult, ozonResult |-> NoResult,
   state |-> "idle"]

\* handleImport is not running; a running invocation keeps the state values
\* of the render it was created in (wbFile, ozonFile, wbResult, ozonResult),
\* its local proceed and importedCount, and the await it is suspended at
NoImport ==
  [pc |-> "idle", wbFile |-> 0, ozonFile |-> 0, wbResult |-> NoResult,
   ozonResult |-> NoResult, proceed |-> FALSE, importedCount |-> 0]

\* no parser call has been made and none is waiting
NoCalls == finished = << >> /\ suspended = << >>

\* the upload page is not in use
UploadIdle ==
  /\ page = PageInitial
  /\ parsing = {}
  /\ importRun = NoImport
  /\ requests = << >>

locals == <<data, headerRowIndex, columnMap, i, warningsSet, zeroImpressionsCount,
            negativeValuesCount, scanned>>

Init ==
  /\ mp \in {"WB", "OZON"}
  /\ file \in (IF mp = "WB" THEN WBFiles ELSE OzonFiles)
  /\ pc = "read"
  /\ outcome = "pending"
  /\ thrown = FALSE
  /\ result = (IF mp = "WB" THEN WBInitialResult ELSE OzonInitialResult)
  /\ data = << >>
  /\ headerRowIndex = NoIdx
  /\ columnMap = << >>
  /\ i = 0
  /\ warningsSet = << >>
  /\ zeroImpressionsCount = 0
  /\ negativeValuesCount = 0
  /\ scanned = << >>
  /\ NoCalls
  /\ call = NoCall
  /\ UploadIdle

\* the try block opened only after the file bytes were read
TryScopeAfterRead == {"sheet", "header", "scan"}

\* the positions whose code runs inside the try block
TryScope == {"read", "sheet", "header", "scan"}

\* a row loop that can raise as well (a row dereferenced without the guard)
ThrowSitesInScan == {"read", "sheet", "scan"}

\* the positions whose code calls into the file or the workbook library
\* (file.arrayBuffer, XLSX.read, decode_range, sheet_to_json)
ThrowSites == {"read", "sheet"}

\* `return result` with these errors appended
Return(errs) ==
  /\ result' = [result EXCEPT !.errors = result.errors \o errs]
  /\ pc' = "done"
  /\ outcome' = "returned"

\* an exception at the current position: the catch block appends one error
\* and the function returns; outside the try block the promise rejects
Throw ==
  /\ pc \in ThrowSites
  /\ pc = "sheet" =>
        findSheet(file, IF mp = "WB" THEN "Tovary" ELSE "Po tovaram") # 0
  /\ thrown' = TRUE
  /\ IF pc \in TryScope
       THEN Return(<<ErrParse>>)
       ELSE /\ pc' = "done"
            /\ outcome' = "rejected"
            /\ UNCHANGED result
  /\ UNCHANGED <<mp, file, locals>>
  /\ UNCHANGED env

\* the required-column check without its early return
NeverAbort(errs) == FALSE

\* the gate after the required-column check
AbortOnErrors(errs) == Len(errs) > 0

\* a skip that fills the histogram bucket only
SkipRowBucketOnly(diag, reason) ==
  [diag EXCEPT !.skipReasons[reason] = @ + 1]

SkipRow(diag, reason) ==
  [diag EXCEPT !.rowsSkipped = @ + 1, !.skipReasons[reason] = @ + 1]

(* ---------------------------------------------------------------------- *)
(* parseWBFile                                                             *)
(* ---------------------------------------------------------------------- *)
WBRead ==
  /\ mp = "WB" /\ pc = "read"
  /\ result' = [result EXCEPT !.periodStart = file.period.start,
                              !.periodEnd = file.period.end]
  /\ pc' = "sheet"
  /\ UNCHANGED <<mp, file, outcome, thrown, locals>>
  /\ UNCHANGED env

WBFindSheet ==
  /\ mp = "WB" /\ pc = "sheet"
  /\ \E k \in {findSheet(file, "Tovary")} :
        IF k = 0
          THEN Return(<<ErrSheetWB>>) /\ UNCHANGED data
          ELSE \E grid \in {file.sheets[k].data} :
                  /\ data' = grid
                  /\ IF Len(grid) < 2
                       THEN /\ result' = [result EXCEPT
                                 !.diagnostics.sheetName = file.sheets[k].name,
                                 !.errors = Append(@, ErrNoDataWB)]
                            /\ pc' = "done"
                            /\ outcome' = "returned"
                       ELSE /\ result' = [result EXCEPT
                                 !.diagnostics.sheetName = file.sheets[k].name]
                            /\ pc' = "header"
                            /\ UNCHANGED outcome
  /\ UNCHANGED <<mp, file, thrown, headerRowIndex, columnMap, i, warningsSet,
                 zeroImpressionsCount, negativeValuesCount, scanned>>
  /\ UNCHANGED env

WBHeader ==
  /\ mp = "WB" /\ pc = "header"
  /\ \E h \in {WBHeaderRowIndex(data)} :
     \E headers \in {data[h + 1]} :
     \E map \in {WBColumnMap([c \in 1..Len(headers) |-> normalizeHeader(headers[c])])} :
     \E missing \in {MissingColumns(WBRequired, map)} :
     \E errs \in {result.errors \o MapErr(missing)} :
     \E mapped \in {[result EXCEPT
                      !.diagnostics.columnMapping =
                         [key \in DOMAIN map |-> HeaderOrNull(headers, map[key])],
                      !.diagnostics.missingColumns = missing,
                      !.errors = errs]} :
        /\ headerRowIndex' = h
        /\ columnMap' = map
        /\ IF AbortOnErrors(errs)
             THEN /\ result' = mapped
                  /\ pc' = "done"
                  /\ outcome' = "returned"
                  /\ UNCHANGED i
             ELSE /\ result' = [mapped EXCEPT
                                  !.diagnostics.totalRowsScanned = Len(data) - h - 1]
                  /\ pc' = "scan"
                  /\ i' = h + 1
                  /\ UNCHANGED outcome
  /\ UNCHANGED <<mp, file, thrown, data, warningsSet, zeroImpressionsCount,
                 negativeValuesCount, scanned>>
  /\ UNCHANGED env

WBScanRow ==
  /\ mp = "WB" /\ pc = "scan" /\ i < Len(data)
  /\ \E r \in {WBParseRow(data[i + 1], columnMap)} :
        /\ IF r.skip = "empty" THEN UNCHANGED <<result, scanned>>
           ELSE IF r.skip # ""
             THEN /\ result' = [result EXCEPT !.diagnostics = SkipRow(@, r.skip)]
                  /\ UNCHANGED scanned
             ELSE /\ result' = [result EXCEPT !.rows = @ \o r.push,
                                              !.diagnostics.rowsAccepted = @ + 1]
                  /\ scanned' = scanned \o r.push
        /\ i' = i + 1
  /\ UNCHANGED <<mp, file, pc, outcome, thrown, data, headerRowIndex, columnMap,
                 warningsSet, zeroImpressionsCount, negativeValuesCount>>
  /\ UNCHANGED env

WBFinish ==
  /\ mp = "WB" /\ pc = "scan" /\ i >= Len(data)
  /\ pc' = "done"
  /\ outcome' = "returned"
  /\ UNCHANGED <<mp, file, thrown, result, locals>>
  /\ UNCHANGED env

(* ---------------------------------------------------------------------- *)
(* parseOzonFile                                                           *)
(* ---------------------------------------------------------------------- *)
OzonRead ==
  /\ mp = "OZON" /\ pc = "read"
  /\ result' = [result EXCEPT !.periodStart = file.period.start,
                              !.periodEnd = file.period.end]
  /\ pc' = "sheet"
  /\ UNCHANGED <<mp, file, outcome, thrown, locals>>
  /\ UNCHANGED env

OzonFindSheet ==
  /\ mp = "OZON" /\ pc = "sheet"
  /\ \E k \in {findSheet(file, "Po tovaram")} :
        IF k = 0
          THEN Return(<<ErrSheetOzon>>) /\ UNCHANGED data
          ELSE \E grid \in {file.sheets[k].data} :
                  /\ data' = grid
                  /\ IF Len(grid) < 3
                       THEN /\ result' = [result EXCEPT
                                 !.diagnostics.sheetName = file.sheets[k].name,
                                 !.errors = Append(@, ErrNoDataOzon)]
                            /\ pc' = "done"
                            /\ outcome' = "returned"
                       ELSE /\ result' = [result EXCEPT
                                 !.diagnostics.sheetName = file.sheets[k].name]
                            /\ pc' = "header"
                            /\ UNCHANGED outcome
  /\ UNCHANGED <<mp, file, thrown, headerRowIndex, columnMap, i, warningsSet,
                 zeroImpressionsCount, negativeValuesCount, scanned>>
  /\ UNCHANGED env

OzonHeader ==
  /\ mp = "OZON" /\ pc = "header"
  /\ \E headerStartRow \in {OzonHeaderStartRow(data)} :
     \E headerSecondRow \in {headerStartRow + 1} :
        IF headerStartRow = NoIdx
          THEN Return(<<ErrHeaderOzon>>) /\ UNCHANGED <<headerRowIndex, columnMap, i>>
          ELSE IF headerSecondRow >= Len(data)
            THEN Return(<<ErrSecondRowOzon>>) /\ UNCHANGED <<headerRowIndex, columnMap, i>>
          ELSE
            \E compositeHeaders \in
                  {buildCompositeHeaders(data[headerStartRow + 1], data[headerSecondRow + 1])} :
            \E headerSample \in {HeaderSample(compositeHeaders)} :
            \E map \in {OzonColumnMap(compositeHeaders)} :
            \E missing \in {MissingColumns(OzonRequired, map)} :
            \E errs \in {result.errors \o MapErrOzon(missing, headerSample)} :
            \E startRow \in {headerSecondRow + 3} :
            \E mapped \in {[result EXCEPT
                             !.diagnostics.headerStartRow = headerStartRow,
                             !.diagnostics.headerSecondRow = headerSecondRow,
                             !.diagnostics.headerSample = headerSample,
                             !.diagnostics.columnMapping =
                                [key \in DOMAIN map |->
                                   IF map[key] = NoIdx THEN ""
                                   ELSE compositeHeaders[map[key] + 1]],
                             !.diagnostics.missingColumns = missing,
                             !.errors = errs]} :
               /\ headerRowIndex' = headerStartRow
               /\ columnMap' = map
               /\ IF AbortOnErrors(errs)
                    THEN /\ result' = mapped
                         /\ pc' = "done"
                         /\ outcome' = "returned"
                         /\ UNCHANGED i
                    ELSE /\ result' = [mapped EXCEPT
                                         !.diagnostics.totalRowsScanned = Len(data) - startRow]
                         /\ pc' = "scan"
                         /\ i' = startRow
                         /\ UNCHANGED outcome
  /\ UNCHANGED <<mp, file, thrown, data, warningsSet, zeroImpressionsCount,
                 negativeValuesCount, scanned>>
  /\ UNCHANGED env

OzonScanRow ==
  /\ mp = "OZON" /\ pc = "scan" /\ i < Len(data)
  /\ \E r \in {OzonParseRow(data[i + 1], columnMap)} :
        /\ IF r.skip = "empty" THEN UNCHANGED <<result, scanned, zeroImpressionsCount>>
           ELSE IF r.skip # ""
             THEN /\ result' = [result EXCEPT !.diagnostics = SkipRow(@, r.skip)]
                  /\ UNCHANGED <<scanned, zeroImpressionsCount>>
             ELSE /\ result' = [result EXCEPT !.rows = @ \o r.push,
                                              !.diagnostics.rowsAccepted = @ + 1]
                  /\ scanned' = scanned \o r.push
                  /\ zeroImpressionsCount' =
                       IF IsZero(r.push[1].impressions)
                         THEN zeroImpressionsCount + 1 ELSE zeroImpressionsCount
        /\ negativeValuesCount' = negativeValuesCount + Len(r.clamped)
        /\ warningsSet' = SetAddAll(warningsSet, MapWarnNegative(r.clamped))
        /\ i' = i + 1
  /\ UNCHANGED <<mp, file, pc, outcome, thrown, data, headerRowIndex, columnMap>>
  /\ UNCHANGED env

\* the code after the row loop: aggregation, the summary warnings, return
OzonFinish ==
  /\ mp = "OZON" /\ pc = "scan" /\ i >= Len(data)
  /\ \E aggregated \in {aggregateDuplicates(result.rows)} :
     \E withZero \in {IF zeroImpressionsCount > 0
                       THEN SetAddAll(warningsSet, <<WarnZeroImpressions(zeroImpressionsCount)>>)
                       ELSE warningsSet} :
     \E withNegative \in {IF negativeValuesCount > 0
                           THEN SetAddAll(withZero, <<WarnNegativeTotal>>)
                           ELSE withZero} :
        /\ warningsSet' = withNegative
        /\ result' = [result EXCEPT
             !.rows = IF AGGREGATE_DUPLICATES THEN aggregated.rows ELSE @,
             !.diagnostics.duplicatesAggregated =
                IF AGGREGATE_DUPLICATES THEN aggregated.aggregatedCount ELSE 0,
             !.diagnostics.aggregationApplied = AGGREGATE_DUPLICATES,
             !.warnings = @ \o withNegative]
  /\ pc' = "done"
  /\ outcome' = "returned"
  /\ UNCHANGED <<mp, file, thrown, data, headerRowIndex, columnMap, i,
                 zeroImpressionsCount, negativeValuesCount, scanned>>
  /\ UNCHANGED env

Next ==
  \/ Throw
  \/ WBRead
  \/ WBFindSheet
  \/ WBHeader
  \/ WBScanRow
  \/ WBFinish
  \/ OzonRead
  \/ OzonFindSheet
  \/ OzonHeader
  \/ OzonScanRow
  \/ OzonFinish

Spec == Init /\ [][Next]_vars

(* ---------------------------------------------------------------------- *)
(* Several parser calls                                                    *)
(* ---------------------------------------------------------------------- *)
\* A call runs without interruption except at `await file.arrayBuffer()`,
\* the only await of either parser: there another call may start and run.
\* The variables of `parser` hold the call that is running; a call waiting
\* at the await has built its result literal and nothing else.

\* the files of the repeated calls: a header with or without a title row
\* above it, over at most one data row
RepeatFiles(m) ==
  IF m = "WB"
    THEN {[sheets |-> <<Sheet("Tovary", head \o body)>>, period |-> Week1] :
            head \in {<<WBHeaderRow>>, <<WBTitleRow, WBHeaderRow>>},
            body \in SeqsUpTo(WBDataRows, 1)}
    ELSE {[sheets |-> <<Sheet("Po tovaram", head \o body)>>, period |-> Week1] :
            head \in {<<OzonGroupRow, OzonMetricRow, OzonUnitsRow, OzonBlankRow>>,
                      <<OzonTestData[1], OzonGroupRow, OzonMetricRow, OzonUnitsRow,
                        OzonBlankRow>>},
            body \in SeqsUpTo(OzonDataRows, 1)}

\* a call on another file, made between or during the calls compared: an
\* Ozon report whose rows produce warnings
OtherCall ==
  [mp |-> "OZON",
   file |-> [sheets |->
               <<Sheet("Po tovaram",
                       <<OzonGroupRow, OzonMetricRow, OzonUnitsRow, OzonBlankRow,
                         OzonRow(S("GFM-300"), N(10), N(20), N(30), NullCell, N(1), N(-100),
                                 N(-50), S("150%"), NullCell, N(-1), NullCell),
                         OzonRow(S("GFM-300"), N(0), N(0), N(0), NullCell, N(0), NullCell,
                                 N(200), NR(3, 10), N(5), NullCell, NullCell)>>)>>,
             period |-> NoPeriod]]

\* the result literal built on entry
InitialResult(m) == IF m = "WB" THEN WBInitialResult ELSE OzonInitialResult

\* a warnings set kept at module level and reused by every call
ModuleWarningsSet(previous) == previous

\* `const warningsSet = new Set<string>()` inside the call
FreshWarningsSet(previous) == << >>

\* entry of a call, or its resumption at the await, with its own locals
Enter(m, f, r) ==
  /\ mp' = m
  /\ file' = f
  /\ pc' = "read"
  /\ outcome' = "pending"
  /\ thrown' = FALSE
  /\ result' = r
  /\ data' = << >>
  /\ headerRowIndex' = NoIdx
  /\ columnMap' = << >>
  /\ i' = 0
  /\ warningsSet' = FreshWarningsSet(warningsSet)
  /\ zeroImpressionsCount' = 0
  /\ negativeValuesCount' = 0
  /\ scanned' = << >>

\* the running call as an entry of `finished`
Completed == [mp |-> mp, file |-> file, thrown |-> thrown, result |-> result]

\* the calls started so far
CallsStarted == Len(finished) + Len(suspended) + 1

\* the (parser, file) pairs of the calls started so far
CallsSoFar ==
  {[mp |-> mp, file |-> file]}
  \cup {[mp |-> finished[k].mp, file |-> finished[k].file] : k \in 1..Len(finished)}
  \cup {[mp |-> suspended[k].mp, file |-> suspended[k].file] : k \in 1..Len(suspended)}

RepeatInit ==
  /\ mp \in {"WB", "OZON"}
  /\ file \in RepeatFiles(mp)
  /\ pc = "read"
  /\ outcome = "pending"
  /\ thrown = FALSE
  /\ result = InitialResult(mp)
  /\ data = << >>
  /\ headerRowIndex = NoIdx
  /\ columnMap = << >>
  /\ i = 0
  /\ warningsSet = << >>
  /\ zeroImpressionsCount = 0
  /\ negativeValuesCount = 0
  /\ scanned = << >>
  /\ NoCalls
  /\ call = NoCall
  /\ UploadIdle

\* a further call is made, on a file used before or on the other file, after
\* the running call returned or while it waits at the await
StartCall ==
  /\ pc \in {"read", "done"}
  /\ CallsStarted < MaxCalls
  /\ \E next \in CallsSoFar \cup {OtherCall} :
        Enter(next.mp, next.file, InitialResult(next.mp))
  /\ IF pc = "done"
       THEN finished' = Append(finished, Completed) /\ UNCHANGED suspended
       ELSE /\ suspended' = Append(suspended, [mp |-> mp, file |-> file, result |-> result])
            /\ UNCHANGED finished
  /\ UNCHANGED <<call, upload>>

\* the running call has returned and a waiting call continues after its await
ResumeCall ==
  /\ pc = "done"
  /\ \E k \in 1..Len(suspended) :
        /\ Enter(suspended[k].mp, suspended[k].file, suspended[k].result)
        /\ suspended' = SubSeq(suspended, 1, k - 1) \o SubSeq(suspended, k + 1, Len(suspended))
  /\ finished' = Append(finished, Completed)
  /\ UNCHANGED <<call, upload>>

RepeatNext ==
  \/ Throw
  \/ WBRead
  \/ WBFindSheet
  \/ WBHeader
  \/ WBScanRow
  \/ WBFinish
  \/ OzonRead
  \/ OzonFindSheet
  \/ OzonHeader
  \/ OzonScanRow
  \/ OzonFinish
  \/ StartCall
  \/ ResumeCall

RepeatSpec == RepeatInit /\ [][RepeatNext]_vars

(* ---------------------------------------------------------------------- *)
(* Direct calls of the utility functions                                   *)
(* ---------------------------------------------------------------------- *)
\* no parser call is in progress
ParserIdle ==
  /\ mp = "WB"
  /\ file = [sheets |-> << >>, period |-> NoPeriod]
  /\ pc = "idle"
  /\ outcome = "pending"
  /\ thrown = FALSE
  /\ result = WBInitialResult
  /\ data = << >>
  /\ headerRowIndex = NoIdx
  /\ columnMap = << >>
  /\ i = 0
  /\ warningsSet = << >>
  /\ zeroImpressionsCount = 0
  /\ negativeValuesCount = 0
  /\ scanned = << >>

\* k written with two / three digits
TwoDigits(k) == (IF k < 10 THEN "0" ELSE "") \o NatToStr(k)
ThreeDigits(k) == (IF k < 100 THEN "0" ELSE "") \o TwoDigits(k)

\* the integer i with its thousands groups separated by sep
RECURSIVE GroupThousands(_, _)
GroupThousands(int, sep) ==
  IF int < 1000 THEN NatToStr(int)
  ELSE GroupThousands(int \div 1000, sep) \o sep \o ThreeDigits(int % 1000)

\* the amount of cents/100 written as in '12 345,67 R': grouped integer part,
\* decimal comma, two decimals, then the tail (nothing or the currency glyph)
FormatRu(cents, sep, tail) ==
  GroupThousands(cents \div 100, sep) \o "," \o TwoDigits(cents % 100) \o tail

Amounts == {0, 7, 50, 99, 100, 1250, 99999, 100000, 120050, 1234567, 100000000, 123456789}
GroupSeparators == {" ", NBSP}
CurrencyTails == {"", " " \o RUB, NBSP \o RUB}
Placeholders == {"", EMDASH, "-", ENDASH}

\* the arguments of the direct calls of parseNumberRU
ParseNumberInputs ==
  {S(FormatRu(c, sep, tail)) : c \in Amounts, sep \in GroupSeparators, tail \in CurrencyTails}
  \cup {S(str) : str \in Placeholders}
  \cup {S("12.345,67"), S("1.234.567,89"), S("12" \o NBSP \o "345"), S("12.34"), S("  "),
        S("abc"), S("1,2,3"), S("--5"), S("."), S("%"), S("12 abc"), S("-1 234,5"),
        S("+7"), S("5."), S(",5"), S("1e3"),
        N(5), NR(-3, 2), [k |-> "num", v |-> NAN, s |-> ""], NullCell}

\* the arguments of the direct calls of parsePercentToFraction
ParsePercentInputs ==
  {S("12%"), NR(3, 10), S("120%"), N(0), N(1), S("1"), S("1,01"), S("100"), S("100%"),
   S("100,01"), N(101), N(-1), S("-0,5"), S("-12%"), S("0,999"), S("50"), NR(1, 2),
   S(EMDASH), S("abc"), NullCell, S("12.345,67"), S("0")}

\* options.matcher: the cell includes every word ("all") or some word ("some")
Matches(matcher, cell) ==
  IF matcher.mode = "all"
    THEN \A k \in 1..Len(matcher.words) : includes(cell, matcher.words[k])
    ELSE \E k \in 1..Len(matcher.words) : includes(cell, matcher.words[k])

\* the loop with `i < maxRows`: the last row of the window is not examined
findHeaderRowExclusive(rows, options) ==
  LET limit == IF options.maxRows = NoIdx THEN 50 ELSE options.maxRows
      maxRows == IF limit < Len(rows) - 1 THEN limit ELSE Len(rows) - 1
      hits == {r \in 0..(maxRows - 1) :
                 \E c \in 1..Len(rows[r + 1]) :
                    LET normalized == normalizeHeader(rows[r + 1][c])
                    IN normalized # "" /\ Matches(options.matcher, normalized)}
  IN IF hits = {} THEN NoIdx ELSE CHOOSE r \in hits : \A q \in hits : r <= q

\* options.maxRows ?? 50, NoIdx standing for an absent option
findHeaderRow(rows, options) ==
  LET limit == IF options.maxRows = NoIdx THEN 50 ELSE options.maxRows
      maxRows == IF limit < Len(rows) - 1 THEN limit ELSE Len(rows) - 1
      hits == {r \in 0..maxRows :
                 \E c \in 1..Len(rows[r + 1]) :
                    LET normalized == normalizeHeader(rows[r + 1][c])
                    IN normalized # "" /\ Matches(options.matcher, normalized)}
  IN IF hits = {} THEN NoIdx ELSE CHOOSE r \in hits : \A q \in hits : r <= q

\* the rows of the grids passed to findHeaderRow directly
HeaderRowChoices ==
  { <<S("Otchet po prodazham"), NullCell>>,
    <<S("Artikul prodavca"), S("Pokazy"), S("CTR")>>,
    <<S("ABC-123"), N(100), S("1,2%")>>,
    <<NullCell, S("  ARTIKUL" \o NBSP \o "Prodavca ")>>,
    << >> }

\* the matcher of the test and a some-of matcher
HeaderMatchers ==
  { [mode |-> "all", words |-> <<"artikul", "prodav">>],
    [mode |-> "some", words |-> <<"pokazy", "ctr">>] }

FindHeaderRowInputs ==
  {[rows |-> rows, options |-> [maxRows |-> m, matcher |-> matcher]] :
      rows \in SeqsUpTo(HeaderRowChoices, MaxHeaderRows),
      m \in {NoIdx, 0, 1, 10},
      matcher \in HeaderMatchers}

\* a direct call that has not returned yet
Called(fn, arg) == [fn |-> fn, arg |-> arg, pc |-> "called", ret |-> NULL]

UtilInit ==
  /\ ParserIdle
  /\ NoCalls
  /\ UploadIdle
  /\ call \in {Called("parseNumberRU", c) : c \in ParseNumberInputs}
            \cup {Called("parsePercentToFraction", c) : c \in ParsePercentInputs}
            \cup {Called("findHeaderRow", a) : a \in FindHeaderRowInputs}

CallParseNumberRU ==
  /\ call.fn = "parseNumberRU" /\ call.pc = "called"
  /\ call' = [call EXCEPT !.ret = parseNumberRU(call.arg), !.pc = "returned"]
  /\ UNCHANGED <<parser, finished, suspended, upload>>

CallParsePercentToFraction ==
  /\ call.fn = "parsePercentToFraction" /\ call.pc = "called"
  /\ call' = [call EXCEPT !.ret = parsePercentToFraction(call.arg), !.pc = "returned"]
  /\ UNCHANGED <<parser, finished, suspended, upload>>

CallFindHeaderRow ==
  /\ call.fn = "findHeaderRow" /\ call.pc = "called"
  /\ call' = [call EXCEPT !.ret = findHeaderRow(call.arg.rows, call.arg.options),
                          !.pc = "returned"]
  /\ UNCHANGED <<parser, finished, suspended, upload>>

UtilNext ==
  \/ CallParseNumberRU
  \/ CallParsePercentToFraction
  \/ CallFindHeaderRow

UtilSpec == UtilInit /\ [][UtilNext]_vars

(* ---------------------------------------------------------------------- *)
(* The upload page                                                        *)
(* ---------------------------------------------------------------------- *)
\* the files the operator can select for a marketplace: a file is its number
\* together with what parsing it returns (errors, else warnings, else
\* neither; period found or not); parseWBFile of src pushes no warnings
PageFiles(m) ==
  IF m = "WB"
    THEN {[id |-> 1, level |-> "ok", period |-> TRUE],
          [id |-> 2, level |-> "error", period |-> TRUE],
          [id |-> 3, level |-> "ok", period |-> FALSE]}
    ELSE {[id |-> 1, level |-> "warn", period |-> TRUE],
          [id |-> 2, level |-> "error", period |-> FALSE],
          [id |-> 3, level |-> "ok", period |-> FALSE]}

\* the result the parser returns for a file (equal for equal files)
ParseResultOf(f) == [file |-> f.id, level |-> f.level, period |-> f.period]

getStatus(r) == r.level

overallStatus(p) ==
  LET wbStatus == getStatus(p.wbResult)
      ozonStatus == getStatus(p.ozonResult)
  IN IF wbStatus = "error" \/ ozonStatus = "error" THEN "error"
     ELSE IF wbStatus = "warn" \/ ozonStatus = "warn" THEN "warn"
     ELSE IF wbStatus = "ok" \/ ozonStatus = "ok" THEN "ok"
     ELSE "idle"

dryRunComplete(p) ==
  /\ (p.wbFile = 0 \/ p.wbResult # NoResult)
  /\ (p.ozonFile = 0 \/ p.ozonResult # NoResult)

canImport(p) ==
  dryRunComplete(p) /\ overallStatus(p) # "error" /\ p.state # "importing"

\* the catch block of handleImport: setState('error'), the invocation ends
ImportThrown == [run |-> NoImport, state |-> "error"]

\* the end of the try block of handleImport
ImportFinish(run) ==
  IF run.importedCount > 0 THEN [run |-> NoImport, state |-> "imported"]
  ELSE ImportThrown

\* 'Import Ozon if available', up to its first await
ImportOzonSection(run, state) ==
  IF run.ozonFile # 0 /\ run.ozonResult # NoResult /\ run.ozonResult.period
    THEN [run |-> [run EXCEPT !.pc = "ozonHash"], state |-> state]
  ELSE IF run.ozonFile # 0 /\ run.ozonResult # NoResult
    THEN ImportThrown
  ELSE ImportFinish(run)

\* 'Import WB if available', up to its first await
ImportWBSection(run, state) ==
  IF run.wbFile # 0 /\ run.wbResult # NoResult /\ run.wbResult.period
    THEN [run |-> [run EXCEPT !.pc = "wbHash"], state |-> state]
  ELSE IF run.wbFile # 0 /\ run.wbResult # NoResult
    THEN ImportThrown
  ELSE ImportOzonSection(run, state)

\* the body of the POST /api/import request: the file whose hash is sent and
\* the file whose parse result supplies rows and period
ImportRequest(m, hashed, r) ==
  [marketplace |-> m, fileHash |-> hashed, rows |-> r.file]

PageInit ==
  /\ ParserIdle
  /\ NoCalls
  /\ call = NoCall
  /\ UploadIdle

\* parseWbFile / parseOzonFileInput up to the await of the parser: the
\* operator selects a file (the cards never disable selection); a file is
\* not selected again while its parse is still awaited
SelectFile(m, f) ==
  /\ Cardinality(parsing) < MaxParsing
  /\ [mp |-> m, file |-> f] \notin parsing
  /\ parsing' = parsing \cup {[mp |-> m, file |-> f]}
  /\ page' = IF m = "WB" THEN [page EXCEPT !.wbFile = f.id, !.state = "parsing"]
             ELSE [page EXCEPT !.ozonFile = f.id, !.state = "parsing"]
  /\ UNCHANGED <<parser, finished, suspended, call, importRun, requests>>

parseWbFile == \E f \in PageFiles("WB") : SelectFile("WB", f)

parseOzonFileInput == \E f \in PageFiles("OZON") : SelectFile("OZON", f)

\* parseWbFile / parseOzonFileInput after the await: the parser returned
\* (it catches its own exceptions, so the catch block is not reached)
ParseReturned(m, f) ==
  /\ [mp |-> m, file |-> f] \in parsing
  /\ parsing' = parsing \ {[mp |-> m, file |-> f]}
  /\ \E r \in {ParseResultOf(f)} :
       \E st \in {IF r.level = "error" THEN "error" ELSE "parsed"} :
         page' = IF m = "WB" THEN [page EXCEPT !.wbResult = r, !.state = st]
                 ELSE [page EXCEPT !.ozonResult = r, !.state = st]
  /\ UNCHANGED <<parser, finished, suspended, call, importRun, requests>>

parseWbFileReturned == \E f \in PageFiles("WB") : ParseReturned("WB", f)

parseOzonFileInputReturned == \E f \in PageFiles("OZON") : ParseReturned("OZON", f)

\* the Dry-run button is rendered once a result is held
handleDryRun ==
  /\ page.wbResult # NoResult \/ page.ozonResult # NoResult
  /\ page' = [page EXCEPT !.state = "parsed"]
  /\ UNCHANGED <<parser, finished, suspended, call, parsing, importRun, requests>>

\* a click on the enabled Import button: handleImport up to its first await;
\* answer is what the operator answers should window.confirm be shown. One
\* invocation runs at a time.
handleImport ==
  /\ importRun.pc = "idle"
  /\ Len(requests) < MaxRequests
  /\ page.wbResult # NoResult \/ page.ozonResult # NoResult
  /\ canImport(page)
  /\ overallStatus(page) # "error"
  /\ \E answer \in BOOLEAN :
       IF overallStatus(page) = "warn" /\ ~answer
         THEN UNCHANGED <<page, importRun>>
         ELSE \E next \in {ImportWBSection(
                             [pc |-> "start", wbFile |-> page.wbFile,
                              ozonFile |-> page.ozonFile, wbResult |-> page.wbResult,
                              ozonResult |-> page.ozonResult,
                              proceed |-> (overallStatus(page) = "warn" /\ answer),
                              importedCount |-> 0], "importing")} :
                /\ importRun' = next.run
                /\ page' = [page EXCEPT !.state = next.state]
  /\ UNCHANGED <<parser, finished, suspended, call, parsing, requests>>

\* computeFileHash resolved: fetch sends the request
handleImportHashed ==
  /\ importRun.pc \in {"wbHash", "ozonHash"}
  /\ IF importRun.pc = "wbHash"
       THEN /\ requests' = Append(requests,
                             ImportRequest("WB", importRun.wbFile, importRun.wbResult))
            /\ importRun' = [importRun EXCEPT !.pc = "wbFetch"]
       ELSE /\ requests' = Append(requests,
                             ImportRequest("OZON", importRun.ozonFile, importRun.ozonResult))
            /\ importRun' = [importRun EXCEPT !.pc = "ozonFetch"]
  /\ UNCHANGED <<parser, finished, suspended, call, page, parsing>>

\* the response arrived and its body was read: saved is response.ok with a
\* positive metricsCount
handleImportResponded ==
  /\ importRun.pc \in {"wbFetch", "ozonFetch"}
  /\ \E saved \in BOOLEAN :
       \E next \in {IF ~saved THEN ImportThrown
                    ELSE IF importRun.pc = "wbFetch"
                      THEN ImportOzonSection(
                             [importRun EXCEPT !.importedCount = @ + 1], page.state)
                    ELSE ImportFinish([importRun EXCEPT !.importedCount = @ + 1])} :
         /\ importRun' = next.run
         /\ page' = [page EXCEPT !.state = next.state]
  /\ UNCHANGED <<parser, finished, suspended, call, parsing, requests>>

PageNext ==
  \/ parseWbFile
  \/ parseOzonFileInput
  \/ parseWbFileReturned
  \/ parseOzonFileInputReturned
  \/ handleDryRun
  \/ handleImport
  \/ handleImportHashed
  \/ handleImportResponded

PageSpec == PageInit /\ [][PageNext]_vars

(* ---------------------------------------------------------------------- *)
(* Properties                                                              *)
(* ---------------------------------------------------------------------- *)
Returned == pc = "done" /\ outcome = "returned"

\* the column map has been built
Mapped == DOMAIN columnMap # {}

\* the rows of the row loop that carry the identifier a
RECURSIVE RowsOf(_, _)
RowsOf(rows, a) ==
  IF rows = << >> THEN << >>
  ELSE (IF Head(rows).artikul = a THEN <<Head(rows)>> ELSE << >>) \o RowsOf(Tail(rows), a)

\* the sum of a field over rows, null counted as 0
RECURSIVE Total(_, _)
Total(rows, field) ==
  IF rows = << >> THEN Num(0)
  ELSE RatAdd(OrZero(Head(rows)[field]), Total(Tail(rows), field))

\* C1: in every returned result, a non-empty errors list implies that rows is
\* empty and that diagnostics.rowsAccepted is 0.
C1_ErrorsImplyNoRows ==
  (Returned /\ Len(result.errors) > 0)
    => (result.rows = << >> /\ result.diagnostics.rowsAccepted = 0)

\* a grid with data rows under a located header was returned with errors
C1_Witness ==
  /\ Returned /\ ~thrown
  /\ Mapped
  /\ Len(result.errors) > 0
  /\ Len(data) > headerRowIndex + 2
  /\ result.rows = << >>

\* C2: when the identifier column is not resolved the row loop is never
\* entered, and the returned result has errors, no rows, and lists the key
\* "artikul" in diagnostics.missingColumns.
C2_RequiredColumnGate ==
  (Mapped /\ columnMap.artikul = NoIdx)
    => /\ pc # "scan"
       /\ scanned = << >>
       /\ Returned
       /\ Len(result.errors) > 0
       /\ Len(result.rows) = 0
       /\ \E k \in 1..Len(result.diagnostics.missingColumns) :
             result.diagnostics.missingColumns[k] = "artikul"

\* the identifier column alone is missing: impressions and visits resolve
C2_Witness ==
  /\ Returned /\ Mapped
  /\ columnMap.artikul = NoIdx
  /\ columnMap.impressions # NoIdx
  /\ columnMap.visits # NoIdx
  /\ Len(data) > headerRowIndex + 2

\* C3: the call never rejects; when an exception was raised inside it, the
\* call returns a result whose errors list is exactly the one generic error.
C3_NeverThrows ==
  /\ outcome # "rejected"
  /\ pc = "done" => outcome = "returned"
  /\ (pc = "done" /\ thrown) => result.errors = <<ErrParse>>

\* an exception raised after the file was read and its period detected
C3_Witness ==
  /\ Returned /\ thrown
  /\ result.periodStart # ""
  /\ result.errors = <<ErrParse>>

\* C4: the sheet of the WB test (title row, header row, one data row) parses
\* to exactly one accepted row with every field read from its own column and
\* with no errors.
C4_WBEndToEnd ==
  (mp = "WB" /\ file = WBTestFile /\ pc = "done" /\ ~thrown)
    => /\ result.errors = << >>
       /\ Len(result.rows) = 1
       /\ result.diagnostics.rowsAccepted = 1
       /\ result.rows[1].artikul = "ABC-123"
       /\ result.rows[1].impressions = Num(120)
       /\ result.rows[1].visits = Num(12)
       /\ result.rows[1].ctr = Rat(10, 100)
       /\ result.rows[1].add_to_cart = Num(3)
       /\ result.rows[1].cr_to_cart = Rat(25, 100)
       /\ result.rows[1].orders = Num(1)

\* the rows of the scan window of the WB header search that hold the
\* identifier-column label
WBLabelRows ==
  {r \in 0..(Len(data) - 1) :
     /\ r < 10
     /\ \E c \in 1..Len(data[r + 1]) : includes(normalizeHeader(data[r + 1][c]), "artikul")}

\* C5: the header row chosen by parseWBFile is the first row of the scan
\* window that contains the identifier-column label, and an error is returned
\* when no row of the window contains it.
C5_WBHeaderIsFirstLabelRow ==
  (mp = "WB" /\ Mapped)
    => IF WBLabelRows = {}
         THEN Len(result.errors) > 0
         ELSE /\ headerRowIndex \in WBLabelRows
              /\ \A r \in WBLabelRows : headerRowIndex <= r

\* C6: when the identifier and impressions columns resolve and the visits
\* column does not, parseWBFile returns no error, and the warnings hold a
\* warning about the missing visits column.
C6_WBVisitsOptional ==
  (mp = "WB" /\ Returned /\ ~thrown /\ Mapped
     /\ columnMap.artikul # NoIdx /\ columnMap.impressions # NoIdx
     /\ columnMap.visits = NoIdx)
    => /\ result.errors = << >>
       /\ Len(result.warnings) > 0

\* C7: the sheet of the Ozon test (title row, group row, metric row, data row)
\* parses with no errors and returns the data row with its identifier,
\* impressions and visits.
C7_OzonCompositeHeaders ==
  (mp = "OZON" /\ file = OzonTestFile /\ pc = "done" /\ ~thrown)
    => /\ result.errors = << >>
       /\ Len(result.rows) > 0
       /\ result.rows[1].artikul = "GFA-5200"
       /\ result.rows[1].impressions = Num(1000)
       /\ result.rows[1].visits = Num(100)

\* C8: after aggregation, the row of each identifier has impressions, visits,
\* add_to_cart and orders equal to the sums of those fields over the accepted
\* rows of that identifier; revenue is that row's revenue for a single row and
\* the sum (null counted as 0) when rows were merged.
C8_AggregationSums ==
  (mp = "OZON" /\ Returned /\ result.errors = << >>)
    => \A k \in 1..Len(result.rows) :
         LET r == result.rows[k]
             mine == RowsOf(scanned, r.artikul)
         IN /\ Len(mine) >= 1
            /\ r.impressions = Total(mine, "impressions")
            /\ r.visits = Total(mine, "visits")
            /\ r.add_to_cart = Total(mine, "add_to_cart")
            /\ r.orders = Total(mine, "orders")
            /\ r.revenue = (IF Len(mine) = 1 THEN mine[1].revenue ELSE Total(mine, "revenue"))

\* the rows 100/10/2 and 50/5/1 of one identifier were merged into 150/15/3
C8_Witness ==
  /\ mp = "OZON" /\ Returned
  /\ Len(scanned) = 2
  /\ Len(result.rows) = 1
  /\ scanned[1].impressions = Num(100) /\ scanned[2].impressions = Num(50)
  /\ result.rows[1].impressions = Num(150)
  /\ result.rows[1].visits = Num(15)
  /\ result.rows[1].add_to_cart = Num(3)

\* C9: after aggregation, every identifier with at least two accepted rows has
\* ctr = clampFraction(total visits / total impressions) and
\* cr_to_cart = clampFraction(total add_to_cart / total visits), null when the
\* divisor is 0.
C9_RatesRecomputed ==
  (mp = "OZON" /\ Returned /\ result.errors = << >>)
    => \A k \in 1..Len(result.rows) :
         LET r == result.rows[k]
             mine == RowsOf(scanned, r.artikul)
             tv == Total(mine, "visits")
             ti == Total(mine, "impressions")
             ta == Total(mine, "add_to_cart")
             ratio(a, b) == IF b.n = 0 THEN NULL
                            ELSE IF a.n > b.n THEN Num(1)
                            ELSE Rat(a.n, b.n)
         IN Len(mine) >= 2 => (r.ctr = ratio(tv, ti) /\ r.cr_to_cart = ratio(ta, tv))

\* rows with 100 impressions / 10 visits and 40 impressions / 0 visits of one
\* identifier were merged: ctr is 10/140, where the per-row values 0.1 and 0
\* have the mean 0.05
C9_Witness ==
  /\ mp = "OZON" /\ Returned
  /\ Len(scanned) = 2
  /\ Len(result.rows) = 1
  /\ scanned[1].ctr = Rat(1, 10) /\ scanned[2].ctr = Num(0)
  /\ result.rows[1].impressions = Num(140)
  /\ result.rows[1].ctr = Rat(1, 14)
  /\ result.rows[1].ctr # Rat(1, 20)

\* the data rows the Ozon row loop visits that have a valid identifier, a
\* negative impressions cell and a parseable visits cell
OzonNegativeImpressionRows ==
  {r \in 0..(Len(data) - 1) :
     /\ r >= result.diagnostics.headerSecondRow + 3
     /\ ~isTotalsRow(data[r + 1])
     /\ isValidArtikul(toUpperCase(trim(StringOrEmpty(CellAt(data[r + 1], columnMap.artikul)))))
     /\ ~IsNull(parseNumberRU(CellAt(data[r + 1], columnMap.impressions)))
     /\ RatLt(parseNumberRU(CellAt(data[r + 1], columnMap.impressions)), Num(0))
     /\ ~IsNull(parseNumberRU(CellAt(data[r + 1], columnMap.visits)))}

\* C10: a data row with a valid identifier and a negative impressions cell is
\* accepted with impressions 0, and the returned warnings hold a message that
\* names the impressions field.
C10_ClampAndWarn ==
  (mp = "OZON" /\ Returned /\ result.errors = << >> /\ OzonNegativeImpressionRows # {})
    => /\ \A r \in OzonNegativeImpressionRows :
            \E k \in 1..Len(scanned) :
               /\ scanned[k].artikul =
                    toUpperCase(trim(StringOrEmpty(CellAt(data[r + 1], columnMap.artikul))))
               /\ scanned[k].impressions = Num(0)
       /\ \E w \in 1..Len(result.warnings) : includes(result.warnings[w], LabelImpressions)

\* a direct call of fn has returned
ReturnedFrom(fn) == call.fn = fn /\ call.pc = "returned"

\* C11: parseNumberRU of a string with dots as thousands separators and a
\* comma as decimal separator is the number with the dots removed:
\* "12.345,67" parses to 12345.67 and "1.234.567,89" to 1234567.89.
C11_DotThousands ==
  ReturnedFrom("parseNumberRU")
    => /\ call.arg = S("12.345,67") => call.ret = Rat(1234567, 100)
       /\ call.arg = S("1.234.567,89") => call.ret = Rat(123456789, 100)

\* C12: parseNumberRU returns d for every non-negative amount d with two
\* decimals written with space or non-breaking-space thousands groups, a
\* decimal comma and an optional trailing currency glyph; it returns null for
\* the placeholders "", em dash, "-" and en dash; it never returns a number
\* that is not finite.
C12_RoundTrip ==
  ReturnedFrom("parseNumberRU")
    => /\ \A c \in Amounts, sep \in GroupSeparators, tail \in CurrencyTails :
            call.arg = S(FormatRu(c, sep, tail)) => call.ret = Rat(c, 100)
       /\ (call.arg.k = "str" /\ call.arg.s \in Placeholders) => call.ret = NULL
       /\ call.ret = NULL \/ IsFinite(call.ret)

\* 12 345,67 with non-breaking spaces and the currency glyph was parsed
C12_Witness ==
  /\ ReturnedFrom("parseNumberRU")
  /\ call.arg = S("12" \o NBSP \o "345,67" \o NBSP \o RUB)
  /\ call.arg = S(FormatRu(1234567, NBSP, NBSP \o RUB))
  /\ call.ret = Rat(1234567, 100)

\* C13: for an input whose parsed number n is not null, parsePercentToFraction
\* returns n when 0 <= n <= 1, n/100 when 1 < n <= 100 and null when n < 0 or
\* n > 100; the value is always null or within [0, 1].
C13_PercentBoundaries ==
  ReturnedFrom("parsePercentToFraction")
    => LET n == parseNumberRU(call.arg)
       IN /\ n # NULL =>
               /\ (0 <= n.n /\ n.n <= n.d) => call.ret = n
               /\ (n.d < n.n /\ n.n <= 100 * n.d) => call.ret = Rat(n.n, 100 * n.d)
               /\ (n.n < 0 \/ n.n > 100 * n.d) => call.ret = NULL
          /\ \/ call.ret = NULL
             \/ (call.ret.d > 0 /\ 0 <= call.ret.n /\ call.ret.n <= call.ret.d)

\* the boundary 1 was passed through as the fraction 1
C13_Witness ==
  /\ ReturnedFrom("parsePercentToFraction")
  /\ call.arg = N(1)
  /\ call.ret = Num(1)

\* row r (0-based) of the grid has a cell whose non-empty normalized text
\* satisfies the matcher
RowMatches(rows, r, matcher) ==
  \E c \in 1..Len(rows[r + 1]) :
     /\ normalizeHeader(rows[r + 1][c]) # ""
     /\ Matches(matcher, normalizeHeader(rows[r + 1][c]))

\* C18: findHeaderRow returns the index of the first row among rows
\* 0..min(maxRows, last row) that has a cell whose normalized text satisfies
\* the matcher, and null when no row of that window has one.
C18_FindHeaderRow ==
  ReturnedFrom("findHeaderRow")
    => LET rows == call.arg.rows
           o == call.arg.options
           limit == IF o.maxRows = NoIdx THEN 50 ELSE o.maxRows
           window == {r \in 0..(Len(rows) - 1) : r <= limit}
           matching == {r \in window : RowMatches(rows, r, o.matcher)}
       IN IF matching = {}
            THEN call.ret = NoIdx
            ELSE /\ call.ret \in matching
                 /\ \A r \in matching : call.ret <= r

\* the grid of the test: the title row is passed over, the header row at
\* index 1 is returned
C18_Witness ==
  /\ ReturnedFrom("findHeaderRow")
  /\ call.arg.rows = << <<S("Otchet po prodazham"), NullCell>>,
                        <<S("Artikul prodavca"), S("Pokazy"), S("CTR")>>,
                        <<S("ABC-123"), N(100), S("1,2%")>> >>
  /\ call.arg.options.maxRows = 10
  /\ call.arg.options.matcher.mode = "all"
  /\ call.ret = 1

\* the calls that have returned, the running one included once it is done
CallsReturned ==
  {finished[k] : k \in 1..Len(finished)} \cup (IF pc = "done" THEN {Completed} ELSE { })

\* C14: two calls of the same parser on the same file in which no exception
\* was raised return equal results (rows, diagnostics, warnings, errors and
\* period), whatever calls ran between them or while they waited.
C14_Deterministic ==
  \A a \in CallsReturned, b \in CallsReturned :
     (a.mp = b.mp /\ a.file = b.file /\ ~a.thrown /\ ~b.thrown) => a.result = b.result

\* an Ozon file was parsed, then the other file, then the first file again,
\* and the first and the third call returned the same accepted row
C14_Witness ==
  /\ pc = "done" /\ ~thrown
  /\ Len(finished) = 2
  /\ finished[1].mp = mp /\ finished[1].file = file /\ ~finished[1].thrown
  /\ finished[2].mp = OtherCall.mp /\ finished[2].file = OtherCall.file
  /\ file # OtherCall.file
  /\ Len(finished[2].result.warnings) > 0
  /\ Len(result.rows) = 1
  /\ result = finished[1].result

\* x is null or a number within [0, 1]
NullOrFraction(x) == x = NULL \/ (x.d > 0 /\ 0 <= x.n /\ x.n <= x.d)

\* x is a non-negative integer
NonNegativeInteger(x) == x.d = 1 /\ x.n >= 0

\* x is null or a non-negative number
NullOrNonNegative(x) == x = NULL \/ (x.d > 0 /\ x.n >= 0)

\* C15: every row returned by parseWBFile has ctr and cr_to_cart within
\* [0, 1], impressions, visits, add_to_cart and orders non-negative integers,
\* and revenue and price_avg null or non-negative.
C15_WBRowDomain ==
  (mp = "WB" /\ Returned)
    => \A k \in 1..Len(result.rows) :
         LET r == result.rows[k]
         IN /\ r.ctr # NULL /\ NullOrFraction(r.ctr)
            /\ r.cr_to_cart # NULL /\ NullOrFraction(r.cr_to_cart)
            /\ NonNegativeInteger(r.impressions)
            /\ NonNegativeInteger(r.visits)
            /\ NonNegativeInteger(r.add_to_cart)
            /\ NonNegativeInteger(r.orders)
            /\ NullOrNonNegative(r.revenue)
            /\ NullOrNonNegative(r.price_avg)

\* C16: every row returned by parseOzonFile has ctr, cr_to_cart and drr null
\* or within [0, 1], impressions, visits, add_to_cart and orders non-negative
\* integers, and revenue, price_avg, stock_end and reviews_count null or
\* non-negative.
C16_OzonRowDomain ==
  (mp = "OZON" /\ Returned)
    => \A k \in 1..Len(result.rows) :
         LET r == result.rows[k]
         IN /\ NullOrFraction(r.ctr)
            /\ NullOrFraction(r.cr_to_cart)
            /\ NullOrFraction(r.drr)
            /\ NonNegativeInteger(r.impressions)
            /\ NonNegativeInteger(r.visits)
            /\ NonNegativeInteger(r.add_to_cart)
            /\ NonNegativeInteger(r.orders)
            /\ NullOrNonNegative(r.revenue)
            /\ NullOrNonNegative(r.price_avg)
            /\ NullOrNonNegative(r.stock_end)
            /\ NullOrNonNegative(r.reviews_count)

\* C19: the warnings of a returned Ozon result hold no two equal strings, and
\* the summary warning about negative values occurs at most once.
C19_WarningsDeduplicated ==
  (mp = "OZON" /\ Returned)
    => /\ \A a \in 1..Len(result.warnings), b \in 1..Len(result.warnings) :
            result.warnings[a] = result.warnings[b] => a = b
       /\ Cardinality({a \in 1..Len(result.warnings) :
                         result.warnings[a] = WarnNegativeTotal}) <= 1

\* two accepted rows each had a negative revenue, price and rating (six
\* corrections): one warning per field and one summary warning
C19_Witness ==
  /\ mp = "OZON" /\ Returned
  /\ Len(scanned) = 2
  /\ negativeValuesCount = 6
  /\ Len(result.warnings) = 4
  /\ \E a \in 1..Len(result.warnings) : result.warnings[a] = WarnNegative(LabelRevenue)
  /\ \E a \in 1..Len(result.warnings) : result.warnings[a] = WarnNegativeTotal

\* C20: each WB field resolves to the first header that matches the
\* highest-priority candidate matching any header, wherever the headers that
\* match only later candidates stand.
C20_WBCandidatePriority ==
  (mp = "WB" /\ Mapped)
    => LET headers == [c \in 1..Len(data[headerRowIndex + 1]) |->
                         normalizeHeader(data[headerRowIndex + 1][c])]
       IN \A key \in DOMAIN WBPatterns :
             columnMap[key] = pickColIndex(headers, WBPatterns[key])

\* C17: a request is sent only while no held parse result has errors, and
\* while a held result has warnings only after the operator confirmed.
C17_ErrorsBlockImport ==
  [][Len(requests') > Len(requests)
       => /\ getStatus(page.wbResult) # "error"
          /\ getStatus(page.ozonResult) # "error"
          /\ (overallStatus(page) = "warn" => importRun.proceed)]_vars

\* the index of the first data row of the row loop
ScanStart == IF mp = "WB" THEN headerRowIndex + 1 ELSE headerRowIndex + 4

\* the non-empty rows the row loop has gone through so far (0-based indices)
Visited == {k \in ScanStart..(i - 1) : k < Len(data) /\ Len(data[k + 1]) # 0}

\* the identifier text of a row
ArtikulOf(row) == toUpperCase(trim(StringOrEmpty(CellAt(row, columnMap.artikul))))

\* the required counts of a row as the parser in use reads them
RequiredMissing(row) ==
  \/ IsNull(coerceInt(parseNumberRU(CellAt(row, columnMap.impressions))))
  \/ IsNull(coerceInt(parseNumberRU(CellAt(row, columnMap.visits))))

\* the skip reason a row must be counted under, "" for a row to accept
SkipReasonInOrder(row) ==
  IF isTotalsRow(row) THEN "totals_row"
  ELSE IF ~isValidArtikul(ArtikulOf(row)) THEN "invalid_artikul"
  ELSE IF RequiredMissing(row) THEN "missing_required"
  ELSE ""

SkipReasonNames == {"totals_row", "invalid_artikul", "missing_required"}

\* C21: during and after the row loop of either parser, every non-empty row
\* gone through is counted once, as accepted (with one row pushed) or as
\* skipped under the first applicable reason in the order totals_row,
\* invalid_artikul, missing_required; rowsSkipped is the sum of the
\* skipReasons counts and no skip reason is reported in errors.
C21_RowAccounting ==
  (pc = "scan" \/ (Returned /\ Mapped /\ result.errors = << >>))
    => LET d == result.diagnostics
       IN /\ \A reason \in SkipReasonNames :
               d.skipReasons[reason] =
                 Cardinality({k \in Visited : SkipReasonInOrder(data[k + 1]) = reason})
          /\ d.rowsSkipped = d.skipReasons.totals_row + d.skipReasons.invalid_artikul
                               + d.skipReasons.missing_required
          /\ d.rowsAccepted =
               Cardinality({k \in Visited : SkipReasonInOrder(data[k + 1]) = ""})
          /\ Len(scanned) = d.rowsAccepted
          /\ d.rowsAccepted + d.rowsSkipped = Cardinality(Visited)
          /\ mp = "WB" => Len(result.rows) = d.rowsAccepted
          /\ \A e \in 1..Len(result.errors) :
               \A reason \in SkipReasonNames : ~includes(result.errors[e], reason)

\* a returned result with one accepted row and one row skipped for a missing
\* required count
C21_Witness ==
  /\ Returned /\ result.errors = << >>
  /\ result.diagnostics.rowsAccepted = 1
  /\ result.diagnostics.rowsSkipped = 1
  /\ result.diagnostics.skipReasons.missing_required = 1
  /\ Len(scanned) = 1

\* the two header rows the Ozon parser combined and their composite headers
OzonGroupCells == data[headerRowIndex + 1]
OzonMetricCells == data[headerRowIndex + 2]
OzonComposite == buildCompositeHeaders(OzonGroupCells, OzonMetricCells)

\* the nearest non-blank group label at or to the left of column c (1-based)
NearestGroup(c) ==
  LET labelled == {j \in 1..c : j <= Len(OzonGroupCells)
                                  /\ normalizeHeader(OzonGroupCells[j]) # ""}
  IN IF labelled = {} THEN ""
     ELSE normalizeHeader(OzonGroupCells[CHOOSE j \in labelled : \A q \in labelled : q <= j])

\* the metric text of column c (1-based)
MetricText(c) == normalizeHeader(CellAt(OzonMetricCells, c - 1))

\* column c carries the dynamics marker in its group or its metric text
IsDynamicsColumn(c) ==
  includes(NearestGroup(c), "dinamika") \/ includes(MetricText(c), "dinamika")

OzonHeadersBuilt == mp = "OZON" /\ Mapped

\* C22: in the composite headers, a blank group cell inherits the nearest
\* non-blank group label to its left, the text is group | metric when both
\* are present and else the one present, a column with the dynamics marker
\* yields the empty string, and no field resolves to such a column.
C22_CompositeHeaders ==
  OzonHeadersBuilt
    => /\ Len(OzonComposite) =
            (IF Len(OzonGroupCells) > Len(OzonMetricCells)
               THEN Len(OzonGroupCells) ELSE Len(OzonMetricCells))
       /\ \A c \in 1..Len(OzonComposite) :
            OzonComposite[c] =
              (IF IsDynamicsColumn(c) THEN ""
               ELSE IF NearestGroup(c) # "" /\ MetricText(c) # ""
                 THEN NearestGroup(c) \o " | " \o MetricText(c)
               ELSE IF MetricText(c) # "" THEN MetricText(c)
               ELSE NearestGroup(c))
       /\ \A key \in DOMAIN columnMap :
            columnMap[key] # NoIdx => ~IsDynamicsColumn(columnMap[key] + 1)

\* a header whose third column inherits the funnel group and whose eighth
\* column is a dynamics column, with the revenue column resolved next to it
C22_Witness ==
  /\ OzonHeadersBuilt
  /\ OzonGroupCells = OzonGroupRow
  /\ OzonComposite[3] = "voronka prodazh | posescheniya kartochki tovara"
  /\ IsDynamicsColumn(8) /\ OzonComposite[8] = ""
  /\ columnMap.revenue = 6

\* C23: every target field that no composite header matches on group and
\* metric together is resolved by the metric segment alone.
C23_MetricFallbackForAll ==
  OzonHeadersBuilt
    => \A key \in DOMAIN OzonTargets :
         findColumnByGroupAndMetric(OzonComposite, OzonTargets[key].group,
                                    OzonTargets[key].metric) = NoIdx
           => columnMap[key] = findColumnByMetricOnly(OzonComposite, OzonTargets[key].metric)

\* a returned Ozon result that went through the row loop and the aggregation
OzonAggregated == mp = "OZON" /\ Returned /\ Mapped /\ result.errors = << >>

\* the known values of a field among rows
Known(rows, field) ==
  {rows[k][field] : k \in {j \in 1..Len(rows) : ~IsNull(rows[j][field])}}

\* the mean of the prices of two rows weighted by a field
WeightedPrice(a, b, weight) ==
  RatDiv(RatAdd(RatMul(a.price_avg, a[weight]), RatMul(b.price_avg, b[weight])),
         RatAdd(a[weight], b[weight]))

\* C24: the merged price_avg of an identifier lies between the least and the
\* greatest known price of its rows; for two rows with known prices it is their
\* mean weighted by visits, else by impressions when no visit was counted,
\* else the price of the later row.
C24_WeightedPrice ==
  OzonAggregated
    => \A k \in 1..Len(result.rows) :
         LET rows == RowsOf(scanned, result.rows[k].artikul)
             prices == Known(rows, "price_avg")
             merged == result.rows[k].price_avg
         IN /\ prices # {}
                 => /\ ~IsNull(merged)
                    /\ \E low \in prices : RatLe(low, merged)
                    /\ \E high \in prices : RatLe(merged, high)
            /\ (Len(rows) = 2 /\ ~IsNull(rows[1].price_avg) /\ ~IsNull(rows[2].price_avg))
                 => merged =
                      (IF RatLt(Num(0), RatAdd(rows[1].visits, rows[2].visits))
                         THEN WeightedPrice(rows[1], rows[2], "visits")
                       ELSE IF RatLt(Num(0), RatAdd(rows[1].impressions, rows[2].impressions))
                         THEN WeightedPrice(rows[1], rows[2], "impressions")
                       ELSE rows[2].price_avg)

\* the revenue of a row is known
RevenueKnown(r) == ~IsNull(r.revenue) /\ ~IsZero(r.revenue)

\* C25: the merged drr of two rows of an identifier is their revenue-weighted
\* mean when both revenues and both values are known, else the first known
\* value, else null.
C25_DrrMerge ==
  OzonAggregated
    => \A k \in 1..Len(result.rows) :
         LET rows == RowsOf(scanned, result.rows[k].artikul)
             a == rows[1]
             b == rows[2]
         IN Len(rows) = 2
              => result.rows[k].drr =
                   (IF IsNull(a.drr) THEN b.drr
                    ELSE IF IsNull(b.drr) THEN a.drr
                    ELSE IF RevenueKnown(a) /\ RevenueKnown(b)
                      THEN RatDiv(RatAdd(RatMul(a.drr, a.revenue), RatMul(b.drr, b.revenue)),
                                  RatAdd(a.revenue, b.revenue))
                    ELSE a.drr)

DescriptiveFields == {"stock_end", "rating", "reviews_count"}

\* the value of a field in the last of rows that knows it, null if none does
RECURSIVE LastKnown(_, _)
LastKnown(rows, field) ==
  IF rows = << >> THEN NULL
  ELSE IF ~IsNull(rows[Len(rows)][field]) THEN rows[Len(rows)][field]
  ELSE LastKnown(SubSeq(rows, 1, Len(rows) - 1), field)

\* C26 as stated: stock_end, rating and reviews_count of each returned row are
\* those of the last accepted row with its identifier.
C26_LastRowWins ==
  OzonAggregated
    => \A k \in 1..Len(result.rows) : \A field \in DescriptiveFields :
         LET rows == RowsOf(scanned, result.rows[k].artikul)
         IN result.rows[k][field] = rows[Len(rows)][field]

\* C26 amended: stock_end, rating and reviews_count of each returned row are
\* the values of the last accepted row with its identifier in which the field
\* is known, and null when no row knows it.
C26_LastKnownWins ==
  OzonAggregated
    => \A k \in 1..Len(result.rows) : \A field \in DescriptiveFields :
         result.rows[k][field] = LastKnown(RowsOf(scanned, result.rows[k].artikul), field)

\* two rows of one identifier were merged, the later one without a rating:
\* the rating of the earlier one is kept
C26_Witness ==
  /\ OzonAggregated
  /\ Len(scanned) = 2 /\ Len(result.rows) = 1
  /\ ~IsNull(scanned[1].rating) /\ IsNull(scanned[2].rating)
  /\ result.rows[1].rating = scanned[1].rating
  /\ ~IsNull(scanned[2].stock_end) /\ scanned[2].stock_end # scanned[1].stock_end
  /\ result.rows[1].stock_end = scanned[2].stock_end

\* the identifiers of rows in order of first occurrence
RECURSIVE FirstOccurrences(_, _)
FirstOccurrences(rows, seen) ==
  IF rows = << >> THEN << >>
  ELSE IF Head(rows).artikul \in seen THEN FirstOccurrences(Tail(rows), seen)
  ELSE <<Head(rows).artikul>> \o FirstOccurrences(Tail(rows), seen \cup {Head(rows).artikul})

OtherWarnings ==
  {WarnNegative(label) : label \in {LabelImpressions, LabelVisits, LabelAddToCart,
                                    LabelOrders, LabelRevenue, LabelPrice, LabelStock,
                                    LabelRating, LabelReviews}}
    \cup {WarnNegativeTotal}
    \cup {WarnZeroImpressions(n) : n \in 1..(MaxDataRows + 1)}

\* a returned row whose ctr was clamped: more visits than impressions
CtrClamped == \E k \in 1..Len(scanned) :
  /\ RatLt(Num(0), scanned[k].impressions)
  /\ RatLt(scanned[k].impressions, scanned[k].visits)
  /\ scanned[k].ctr = Num(1)

\* an accepted row whose cell of a rate holds a value that is no fraction,
\* so that the rate was computed from the counts instead
RateFellBack == \E k \in Visited : \E key \in {"ctr", "cr_to_cart"} :
  /\ SkipReasonInOrder(data[k + 1]) = ""
  /\ key \in DOMAIN columnMap
  /\ CellAt(data[k + 1], columnMap[key]).k # "null"
  /\ IsNull(parsePercentToFraction(CellAt(data[k + 1], columnMap[key])))

\* C27: a returned result in which a fraction was clamped or a rate cell was
\* replaced by a computed value carries a warning for that correction.
C27_NoSilentCorrection ==
  (Returned /\ Mapped /\ result.errors = << >>
     /\ ((mp = "OZON" /\ CtrClamped) \/ RateFellBack))
    => \E w \in 1..Len(result.warnings) : result.warnings[w] \notin OtherWarnings

\* C29: in every returned result totalRowsScanned is not negative and
\* rowsAccepted + rowsSkipped does not exceed it.
C29_CountersConsistent ==
  Returned
    => /\ result.diagnostics.totalRowsScanned >= 0
       /\ result.diagnostics.rowsAccepted + result.diagnostics.rowsSkipped
            <= result.diagnostics.totalRowsScanned

\* C30: every request sent carries the rows and period parsed from the file
\* whose hash it carries.
C30_HashMatchesRows ==
  \A k \in 1..Len(requests) : requests[k].fileHash = requests[k].rows

====
